---------------------------- MODULE Spec2Model ----------------------------
(***************************************************************************)
(* k8watch: the change-detection and event pipeline.                       *)
(*                                                                         *)
(*   internal/watcher  (watcher.go, additional_watchers.go)                *)
(*       one informer loop per kind, the per-kind handlers and the         *)
(*       meaningful-change policies, saveAndNotify                         *)
(*   internal/storage  (sqlite.go, models.go)                              *)
(*       the change_events table: SaveEvent, CleanupOldEvents              *)
(*   internal/notifier (slack.go)                                          *)
(*       NotifyChange, run in a goroutine of its own per saved event       *)
(*                                                                         *)
(* Strings are modelled as strings: a diff or a metadata text is built the *)
(* way fmt.Sprintf and json.Marshal build it.  A Go pointer (to an int32 or  *)
(* a bool) is a sequence of length at most one; a Go map is a function on  *)
(* its key set.  Ranging over a Go map visits the keys in an unspecified   *)
(* order, so every operator that builds a list from a map returns the SET  *)
(* of the results the orders can give.                                     *)
(***************************************************************************)
EXTENDS Integers, Sequences, FiniteSets, TLC

VARIABLES
    db,        \* the rows of table change_events
    seq,       \* sqlite_sequence of change_events: the largest id ever assigned
    now,       \* the wall clock, in hours
    enabled,   \* SlackNotifier.enabled
    tasks,     \* the notification goroutines started by saveAndNotify, in start order
    outbox,    \* the messages posted to the webhook, in order
    handled,   \* number of handler invocations so far
    last,      \* the last handler invocation: its transition and what it did
    stopCh,    \* Watcher.stopCh: "open" or "closed"
    mainPc,    \* where main is
    loops,     \* the goroutines started by Watcher.Start, in start order
    inbox,     \* per kind: the transitions delivered and not yet handed to the handler
    delivered, \* number of transitions delivered so far
    idLog,     \* the SaveEvent calls made, in order, each with its outcome
    calls,     \* number of store calls made through the store's API so far
    reply,     \* what the last call of the store's API returned to its caller
    statsCache, \* Server.statsCache: nil or the cacheEntry
    statsReqs, \* the API requests being served: where each is, what it holds
    seconds    \* seconds elapsed on the wall clock since the server started

\* the state of the API server
apiVars == <<statsCache, statsReqs, seconds>>

vars == <<db, seq, now, enabled, tasks, outbox, handled, last, stopCh, mainPc,
          loops, inbox, delivered, idLog, calls, reply, statsCache, statsReqs, seconds>>

-----------------------------------------------------------------------------
(* Bounds of the model *)

\* handler invocations explored by Spec
MaxHandled == 1
\* transitions delivered to the watch loops in SpecPipeline
MaxDelivered == 3
\* store calls explored by SpecStore
MaxCalls == 3
\* the clock stops advancing after this many days
MaxClock == 2
\* the largest Limit and the largest Offset asked for in SpecQuery
MaxPage == 2
\* the wall clock of SpecCache stops after this many half TTLs
MaxTicks == 3
\* the number of NotifyChange calls in SpecNotify
MaxNotified == 2

-----------------------------------------------------------------------------
(* Small helpers *)

None == <<>>
Some(x) == <<x>>
IsSet(p) == Len(p) > 0

EmptyMap == [k \in {} |-> ""]

MapEq(a, b) ==
    /\ DOMAIN a = DOMAIN b
    /\ \A k \in DOMAIN a : a[k] = b[k]

MaxOf(S) == CHOOSE x \in S : \A y \in S : y <= x

\* the orders in which a range over a map with key set S can visit it
Perms(S) ==
    {p \in [1..Cardinality(S) -> S] : \A i, j \in 1..Cardinality(S) : p[i] = p[j] => i = j}

RECURSIVE Join(_, _)
\* strings.Join(parts, sep)
Join(parts, sep) ==
    IF Len(parts) = 0 THEN ""
    ELSE IF Len(parts) = 1 THEN parts[1]
    ELSE parts[1] \o sep \o Join(Tail(parts), sep)

\* fmt.Sprintf("%v", []string{...})
FmtStrings(list) == "[" \o Join(list, " ") \o "]"

\* json.Marshal of a []string (the keys need no escaping)
JsonStrings(list) ==
    "[" \o Join([i \in 1..Len(list) |-> "\"" \o list[i] \o "\""], ",") \o "]"

\* json.Marshal of a pointer to int32
JsonIntPtr(p) == IF IsSet(p) THEN ToString(p[1]) ELSE "null"

\* s contains sub as a substring
Contains(s, sub) ==
    \E i \in 1..(Len(s) - Len(sub) + 1) : SubSeq(s, i, i + Len(sub) - 1) = sub

-----------------------------------------------------------------------------
(* internal/storage *)

\* models.go: a ChangeEvent as a handler builds it (ID is the zero value)
ChangeEvent(ts, ns, kind, name, action, diff, metadata, imageBefore, imageAfter) ==
    [ID |-> 0, Timestamp |-> ts, Namespace |-> ns, Kind |-> kind, Name |-> name,
     Action |-> action, Diff |-> diff, Metadata |-> metadata,
     ImageBefore |-> imageBefore, ImageAfter |-> imageAfter]

\* the row INSERTed for an event: every column but id comes from the event
Row(id, e) ==
    [id |-> id, timestamp |-> e.Timestamp, namespace |-> e.Namespace, kind |-> e.Kind,
     name |-> e.Name, action |-> e.Action, diff |-> e.Diff, metadata |-> e.Metadata,
     image_before |-> e.ImageBefore, image_after |-> e.ImageAfter]

Ids(table) == {r.id : r \in table}

\* the rowid AUTOINCREMENT ignores: one more than the largest id in the table,
\* which reuses the ids of deleted rows
NextIdReusing(table, sq, e) ==
    IF table = {} THEN 1 ELSE MaxOf(Ids(table)) + 1

\* the rowid that takes the caller's ID when it carries one
NextIdFromCaller(table, sq, e) ==
    IF e.ID > 0 /\ e.ID \notin Ids(table) THEN e.ID ELSE MaxOf(Ids(table) \cup {sq}) + 1

\* INTEGER PRIMARY KEY AUTOINCREMENT, id not among the inserted columns: one more
\* than the largest id the table ever held
NextId(table, sq, e) == MaxOf(Ids(table) \cup {sq}) + 1

\* a SaveEvent that overwrites the row of the same resource, where there is one,
\* instead of adding a row
SaveEventUpsert(table, sq, e) ==
    LET same == {r \in table : r.namespace = e.Namespace /\ r.kind = e.Kind
                                   /\ r.name = e.Name}
        id == IF same = {} THEN NextId(table, sq, e) ELSE MaxOf({r.id : r \in same})
    IN  [db |-> (table \ same) \cup {Row(id, e)}, seq |-> MaxOf({id, sq}), id |-> id]

\* SaveEvent when the INSERT succeeds: the new table, the new sqlite_sequence and
\* the id written back into the caller's event
SaveEvent(table, sq, e) ==
    LET id == NextId(table, sq, e)
    IN  [db |-> table \cup {Row(id, e)}, seq |-> id, id |-> id]

\* a cleanup whose DELETE also takes the rows that are exactly retentionDays old
CleanupOldEventsInclusive(table, clock, retentionDays) ==
    LET cutoffDate == clock - 24 * retentionDays
        old == {r \in table : r.timestamp <= cutoffDate}
    IN  [db |-> table \ old, deleted |-> Cardinality(old)]

\* CleanupOldEvents: DELETE ... WHERE timestamp < now - retentionDays
CleanupOldEvents(table, clock, retentionDays) ==
    LET cutoffDate == clock - 24 * retentionDays
        old == {r \in table : r.timestamp < cutoffDate}
    IN  [db |-> table \ old, deleted |-> Cardinality(old)]

\* Filter: a field left at its zero value ("" or the zero time) is absent.  The
\* zero time is None, a time that was set is Some(t)
Filter(ns, kind, name, action, startTime, endTime, limit, offset) ==
    [Namespace |-> ns, Kind |-> kind, Name |-> name, Action |-> action,
     StartTime |-> startTime, EndTime |-> endTime, Limit |-> limit, Offset |-> offset]

\* time.Time.IsZero
IsZero(t) == t = None

\* rows.Scan: the ChangeEvent read from a row
Scan(r) ==
    [ChangeEvent(r.timestamp, r.namespace, r.kind, r.name, r.action, r.diff, r.metadata,
                 r.image_before, r.image_after) EXCEPT !.ID = r.id]

\* SQLite folds the case of ASCII letters in LIKE (here: the letters that occur in
\* upper case in the model)
FoldCase(c) ==
    CASE c = "W" -> "w"
      [] c = "E" -> "e"
      [] c = "B" -> "b"
      [] OTHER -> c

\* the SQL operator LIKE: % matches any run of characters, _ any one character,
\* everything else itself up to the case of ASCII letters
RECURSIVE Like(_, _)
Like(s, pattern) ==
    IF pattern = "" THEN s = ""
    ELSE LET c == SubSeq(pattern, 1, 1)
             rest == SubSeq(pattern, 2, Len(pattern))
             tail == SubSeq(s, 2, Len(s))
         IN  IF c = "%" THEN Like(s, rest) \/ (s # "" /\ Like(tail, pattern))
             ELSE IF s = "" THEN FALSE
             ELSE IF c = "_" THEN Like(tail, rest)
             ELSE FoldCase(c) = FoldCase(SubSeq(s, 1, 1)) /\ Like(tail, rest)

\* the WHERE clause GetTotalCount builds from a filter, on row r
CountWhere(filter, r) ==
    /\ filter.Namespace # "" => r.namespace = filter.Namespace
    /\ filter.Kind # "" => r.kind = filter.Kind
    /\ filter.Name # "" => Like(r.name, "%" \o filter.Name \o "%")
    /\ filter.Action # "" => r.action = filter.Action
    /\ ~IsZero(filter.StartTime) => r.timestamp >= filter.StartTime[1]
    /\ ~IsZero(filter.EndTime) => r.timestamp <= filter.EndTime[1]

\* the WHERE clause GetEvents builds from a filter, on row r
EventsWhere(filter, r) ==
    /\ filter.Namespace # "" => r.namespace = filter.Namespace
    /\ filter.Kind # "" => r.kind = filter.Kind
    /\ filter.Name # "" => Like(r.name, "%" \o filter.Name \o "%")
    /\ filter.Action # "" => r.action = filter.Action
    /\ ~IsZero(filter.StartTime) => r.timestamp >= filter.StartTime[1]
    /\ ~IsZero(filter.EndTime) => r.timestamp <= filter.EndTime[1]

\* ORDER BY timestamp DESC: the orders in which the rows can come back; rows of
\* equal timestamp come in an order SQL leaves open
RECURSIVE OrderByTimestampDesc(_)
OrderByTimestampDesc(rows) ==
    IF rows = {} THEN {<< >>}
    ELSE LET newest == MaxOf({r.timestamp : r \in rows})
         IN  UNION {{<<r>> \o rest : rest \in OrderByTimestampDesc(rows \ {r})}
                    : r \in {x \in rows : x.timestamp = newest}}

\* LIMIT limit OFFSET offset on an ordered result; GetEvents writes LIMIT when
\* filter.Limit > 0 and OFFSET when filter.Offset > 0
Paginate(ordered, limit, offset) ==
    LET from == IF offset > 0 THEN offset + 1 ELSE 1
        to == IF limit > 0 /\ from + limit - 1 < Len(ordered) THEN from + limit - 1
              ELSE Len(ordered)
    IN  SubSeq(ordered, from, to)

\* GetTotalCount
GetTotalCount(table, filter) == Cardinality({r \in table : CountWhere(filter, r)})

\* GetEvents: the results it can return.  With Offset > 0 and no Limit the statement
\* ends "ORDER BY timestamp DESC OFFSET ?", which SQLite rejects (OFFSET may only
\* follow LIMIT): the query fails and GetEvents returns the error
GetEvents(table, filter) ==
    IF filter.Offset > 0 /\ ~(filter.Limit > 0)
    THEN {[err |-> TRUE, events |-> << >>]}
    ELSE {[err |-> FALSE,
           events |-> [i \in 1..Len(Paginate(o, filter.Limit, filter.Offset)) |->
                          Scan(Paginate(o, filter.Limit, filter.Offset)[i])]]
             : o \in OrderByTimestampDesc({r \in table : EventsWhere(filter, r)})}

\* a GetTimeline that matches the name the way GetEvents does
GetTimelineLike(table, namespace, kind, name) ==
    {[i \in 1..Len(o) |-> Scan(o[i])]
        : o \in OrderByTimestampDesc({r \in table : /\ r.namespace = namespace
                                                     /\ r.kind = kind
                                                     /\ Like(r.name, "%" \o name \o "%")})}

\* GetTimeline: the results it can return
GetTimeline(table, namespace, kind, name) ==
    {[i \in 1..Len(o) |-> Scan(o[i])]
        : o \in OrderByTimestampDesc({r \in table : /\ r.namespace = namespace
                                                     /\ r.kind = kind
                                                     /\ r.name = name})}

\* LIMIT 10 of the top modified apps query
TopAppsLimit == 10

\* LIMIT 10 of the recent images query
RecentImagesLimit == 10

\* time.Now().Add(-24 * time.Hour), the clock being in hours
Last24h(clock) == clock - 24

\* SELECT name, COUNT(*) ... WHERE timestamp >= last24h GROUP BY name
AppChangeCounts(table, clock) ==
    LET recent == {r \in table : r.timestamp >= Last24h(clock)}
    IN  {[Name |-> n, Count |-> Cardinality({r \in recent : r.name = n})]
            : n \in {r.name : r \in recent}}

\* a top modified apps query without its LIMIT
TopModifiedAppsUnlimited(table, clock) == {AppChangeCounts(table, clock)}

\* ... ORDER BY count DESC LIMIT 10: the entries that can come back.  Which of the
\* names of equal count come first, and so which are cut, SQL leaves open; the
\* entries are kept as a set, their order being by Count, descending
TopModifiedApps(table, clock) ==
    LET groups == AppChangeCounts(table, clock)
        k == IF Cardinality(groups) < TopAppsLimit THEN Cardinality(groups)
             ELSE TopAppsLimit
    IN  {T \in SUBSET groups :
            /\ Cardinality(T) = k
            /\ \A a \in T, b \in groups \ T : a.Count >= b.Count}

\* a recent images query without its DISTINCT: the image of every row that has one,
\* newest row first
RecentImagesNotDistinct(table) ==
    {[i \in 1..Len(Paginate(o, RecentImagesLimit, 0)) |->
         Paginate(o, RecentImagesLimit, 0)[i].image_after]
        : o \in OrderByTimestampDesc({r \in table : r.image_after # ""})}

\* SELECT DISTINCT image_after ... WHERE image_after != '' ORDER BY timestamp DESC
\* LIMIT 10: the lists of images that can come back.  An image that several rows
\* hold comes once, ranked by the timestamp of one of these rows; SQL leaves open
\* which
RecentImages(table) ==
    LET holders == {r \in table : r.image_after # ""}
        images == {r.image_after : r \in holders}
        Ranked == {R \in SUBSET holders :
                      \A i \in images : Cardinality({r \in R : r.image_after = i}) = 1}
    IN  UNION {{[n \in 1..Len(Paginate(o, RecentImagesLimit, 0)) |->
                    Paginate(o, RecentImagesLimit, 0)[n].image_after]
                   : o \in OrderByTimestampDesc(R)}
               : R \in Ranked}

\* SELECT kind, COUNT(*) FROM change_events GROUP BY kind, read into a map
ChangesByKind(table) ==
    [k \in {r.kind : r \in table} |-> Cardinality({r \in table : r.kind = k})]

\* SELECT action, COUNT(*) FROM change_events GROUP BY action, read into a map
ChangesByAction(table) ==
    [a \in {r.action : r \in table} |-> Cardinality({r \in table : r.action = a})]

\* GetStats on a table that no writer changes meanwhile: the Stats it can return.
\* ChangesPerHour is the quotient of the two numbers of the pair
GetStats(table, clock) ==
    LET last24h == Cardinality({r \in table : r.timestamp >= Last24h(clock)})
    IN  {[TotalChanges |-> Cardinality(table),
          ChangesLast24h |-> last24h,
          ChangesPerHour |-> <<last24h, 24>>,
          TopModifiedApps |-> top,
          RecentImages |-> images,
          ChangesByKind |-> ChangesByKind(table),
          ChangesByAction |-> ChangesByAction(table)]
            : top \in TopModifiedApps(table, clock), images \in RecentImages(table)}

-----------------------------------------------------------------------------
(* internal/watcher: what a handler returns to its informer loop *)

Added == "ADDED"
Modified == "MODIFIED"
Deleted == "DELETED"
EventTypes == {Added, Modified, Deleted}

\* a delivery of the informer: AddFunc(obj), UpdateFunc(oldObj, newObj), DeleteFunc(obj)
Transition(type, oldObj, newObj) == [type |-> type, old |-> oldObj, new |-> newObj]

NoEvent == ChangeEvent(0, "", "", "", "", "", "", "", "")

\* the handler returned before saveAndNotify
Skip(why) == [save |-> FALSE, why |-> why, event |-> NoEvent]
\* the handler built an event and called saveAndNotify with it
Save(e) == [save |-> TRUE, why |-> "record", event |-> e]

\* the namespace test with kube-public left out
IsSystemNamespaceNoPublic(ns) == ns = "kube-system" \/ ns = "kube-node-lease"

\* "Skip system-generated namespaces": the test every handler starts with
IsSystemNamespace(ns) ==
    ns = "kube-system" \/ ns = "kube-public" \/ ns = "kube-node-lease"

\* the object a handler reads namespace and name from: newObj, or oldObj on a delete
Subject(t) == IF t.new # None THEN t.new[1] ELSE t.old[1]

-----------------------------------------------------------------------------
(* Deployment *)

\* a reading of "replicas" that takes an unset count for the API's default of 1
ReplicasOr1(p) == IF IsSet(p) THEN p[1] ELSE 1

\* "replicas": a pointer to int32; count(p) is the handler's reading of it
ReplicasOr0(p) == IF IsSet(p) THEN p[1] ELSE 0

\* detectMeaningfulChanges: the list of changes in check order
DeploymentChanges(oldDep, newDep) ==
    LET oldReplicas == ReplicasOr0(oldDep.replicas)
        newReplicas == ReplicasOr0(newDep.replicas)
        scale ==
            IF oldReplicas # newReplicas
            THEN IF newReplicas > oldReplicas
                 THEN << "Scaled up: " \o ToString(oldReplicas) \o " → "
                         \o ToString(newReplicas) \o " replicas" >>
                 ELSE << "Scaled down: " \o ToString(oldReplicas) \o " → "
                         \o ToString(newReplicas) \o " replicas" >>
            ELSE << >>
        oldContainers == oldDep.containers
        newContainers == newDep.containers
        both == Len(oldContainers) > 0 /\ Len(newContainers) > 0
        image ==
            IF both /\ oldContainers[1].image # newContainers[1].image
            THEN << "Image updated: " \o oldContainers[1].image \o " → "
                    \o newContainers[1].image >>
            ELSE << >>
        limits ==
            IF both /\ (\/ oldContainers[1].limits.cpu # newContainers[1].limits.cpu
                        \/ oldContainers[1].limits.memory # newContainers[1].limits.memory)
            THEN << "Resource limits updated" >> ELSE << >>
        requests ==
            IF both /\ (\/ oldContainers[1].requests.cpu # newContainers[1].requests.cpu
                        \/ oldContainers[1].requests.memory # newContainers[1].requests.memory)
            THEN << "Resource requests updated" >> ELSE << >>
        env ==
            IF both /\ Len(oldContainers[1].env) # Len(newContainers[1].env)
            THEN << "Environment variables updated" >> ELSE << >>
        strategy ==
            IF oldDep.strategy # newDep.strategy
            THEN << "Deployment strategy changed: " \o oldDep.strategy \o " → "
                    \o newDep.strategy >>
            ELSE << >>
    IN  scale \o image \o limits \o requests \o env \o strategy

\* a detectMeaningfulChanges that calls every update a change
DetectMeaningfulChangesAnyUpdate(oldDep, newDep) ==
    [has |-> TRUE, desc |-> "Deployment updated"]

\* a detectMeaningfulChanges that returns the last change found, not the first
DetectMeaningfulChangesLast(oldDep, newDep) ==
    LET changes == DeploymentChanges(oldDep, newDep)
    IN  IF Len(changes) = 0 THEN [has |-> FALSE, desc |-> ""]
        ELSE [has |-> TRUE, desc |-> changes[Len(changes)]]

\* detectMeaningfulChanges: (hasChanges, changeDescription)
DetectMeaningfulChanges(oldDep, newDep) ==
    LET changes == DeploymentChanges(oldDep, newDep)
    IN  IF Len(changes) = 0 THEN [has |-> FALSE, desc |-> ""]
        ELSE [has |-> TRUE, desc |-> changes[1]]

\* diff.ExtractImage(convertToMap(obj)): the first container's image, or ""
ExtractImage(obj) ==
    IF Len(obj.containers) = 0 THEN "" ELSE obj.containers[1].image

\* json.Marshal(map[string]interface{}{"replicas": Spec.Replicas})
ReplicasMetadata(obj) == "{\"replicas\":" \o JsonIntPtr(obj.replicas) \o "}"

\* a handleDeploymentEvent whose last branch tests for watch.Added alone
HandleDeploymentEventAddedOnly(t, ts) ==
    LET deployment == Subject(t)
    IN  IF IsSystemNamespace(deployment.namespace) THEN {Skip("excluded")}
        ELSE IF t.type = Modified /\ t.old # None
        THEN LET d == DetectMeaningfulChanges(t.old[1], deployment)
             IN  IF ~d.has THEN {Skip("unchanged")}
                 ELSE {Save(ChangeEvent(ts, deployment.namespace, "Deployment",
                                        deployment.name, t.type, d.desc,
                                        ReplicasMetadata(deployment),
                                        ExtractImage(t.old[1]), ExtractImage(deployment)))}
        ELSE IF t.type = Added
        THEN {Save(ChangeEvent(ts, deployment.namespace, "Deployment", deployment.name,
                               t.type, "Deployment created", ReplicasMetadata(deployment),
                               "", ExtractImage(deployment)))}
        ELSE {Skip("ignored")}

\* handleDeploymentEvent
HandleDeploymentEvent(t, ts) ==
    LET deployment == Subject(t)
    IN  IF IsSystemNamespace(deployment.namespace) THEN {Skip("excluded")}
        ELSE IF t.type = Modified /\ t.old # None
        THEN LET d == DetectMeaningfulChanges(t.old[1], deployment)
             IN  IF ~d.has THEN {Skip("unchanged")}
                 ELSE {Save(ChangeEvent(ts, deployment.namespace, "Deployment",
                                        deployment.name, t.type, d.desc,
                                        ReplicasMetadata(deployment),
                                        ExtractImage(t.old[1]), ExtractImage(deployment)))}
        ELSE IF t.type = Added \/ t.type = Deleted
        THEN {Save(ChangeEvent(ts, deployment.namespace, "Deployment", deployment.name,
                               t.type,
                               IF t.type = Added THEN "Deployment created"
                                                 ELSE "Deployment deleted",
                               ReplicasMetadata(deployment),
                               "",
                               IF t.type = Added THEN ExtractImage(deployment) ELSE ""))}
        ELSE {Skip("ignored")}

-----------------------------------------------------------------------------
(* ConfigMap *)

\* json.Marshal(map[string]interface{}{"keys": keys})
KeysMetadata(keys) == "{\"keys\":" \o JsonStrings(keys) \o "}"

\* a detectConfigMapChanges that reports every update that changed the object
DetectConfigMapChangesAnyUpdate(oldCM, newCM) ==
    IF oldCM = newCM THEN {[has |-> FALSE, desc |-> ""]}
    ELSE {[has |-> TRUE, desc |-> "ConfigMap updated"]}

\* detectConfigMapChanges: the (hasChanges, changeDescription) the key orders can give
DetectConfigMapChanges(oldCM, newCM) ==
    LET addedKeys == {k \in DOMAIN newCM.data : k \notin DOMAIN oldCM.data}
        removedKeys == {k \in DOMAIN oldCM.data : k \notin DOMAIN newCM.data}
        modifiedKeys == {k \in DOMAIN newCM.data :
                            k \in DOMAIN oldCM.data /\ oldCM.data[k] # newCM.data[k]}
        detailed(k) == "[" \o k \o "]\n- " \o oldCM.data[k] \o "\n+ " \o newCM.data[k]
    IN  IF addedKeys = {} /\ removedKeys = {} /\ modifiedKeys = {}
        THEN {[has |-> FALSE, desc |-> ""]}
        ELSE IF addedKeys # {}
        THEN {[has |-> TRUE, desc |-> "Keys added: " \o FmtStrings(p)] : p \in Perms(addedKeys)}
        ELSE IF removedKeys # {}
        THEN {[has |-> TRUE, desc |-> "Keys removed: " \o FmtStrings(p)] :
                 p \in Perms(removedKeys)}
        ELSE {[has |-> TRUE,
               desc |-> "Keys modified: " \o FmtStrings(p) \o "\n\n"
                        \o Join([i \in 1..Len(p) |-> detailed(p[i])], "\n\n")] :
                 p \in Perms(modifiedKeys)}

\* handleConfigMapEvent
HandleConfigMapEvent(t, ts) ==
    LET cm == Subject(t)
        metadatas == {KeysMetadata(p) : p \in Perms(DOMAIN cm.data)}
    IN  IF IsSystemNamespace(cm.namespace) THEN {Skip("excluded")}
        ELSE IF t.type = Modified /\ t.old # None
        THEN {IF ~d.has THEN Skip("unchanged")
              ELSE Save(ChangeEvent(ts, cm.namespace, "ConfigMap", cm.name, t.type,
                                    d.desc, m, "", "")) :
                 d \in DetectConfigMapChanges(t.old[1], cm), m \in metadatas}
        ELSE IF t.type = Added \/ t.type = Deleted
        THEN {Save(ChangeEvent(ts, cm.namespace, "ConfigMap", cm.name, t.type,
                               IF t.type = Added
                               THEN "ConfigMap created with "
                                    \o ToString(Cardinality(DOMAIN cm.data)) \o " key(s)"
                               ELSE "ConfigMap deleted",
                               m, "", "")) : m \in metadatas}
        ELSE {Skip("ignored")}

-----------------------------------------------------------------------------
(* Secret *)

SecretTypeServiceAccountToken == "kubernetes.io/service-account-token"
SecretTypeHelmRelease == "helm.sh/release.v1"

\* json.Marshal(map[string]interface{}{"type": secret.Type, "keys": keys}): the
\* encoder writes a map's entries in key order
SecretMetadata(type, keys) ==
    "{\"keys\":" \o JsonStrings(keys) \o ",\"type\":\"" \o type \o "\"}"

\* the text of the modified keys written the way detectConfigMapChanges writes it:
\* with the values
SecretModifiedTextWithValues(p, oldSecret, newSecret) ==
    "Keys modified: " \o FmtStrings(p) \o "\n\n"
    \o Join([i \in 1..Len(p) |->
                "[" \o p[i] \o "]\n- " \o oldSecret.data[p[i]] \o "\n+ " \o newSecret.data[p[i]]],
            "\n\n")

\* "show which keys changed, not values for security": the text for the modified
\* keys, visited in order p
SecretModifiedText(p, oldSecret, newSecret) ==
    "Keys modified: " \o FmtStrings(p) \o "\n\n(Secret values are not displayed for security)"

\* a detectSecretChanges that looks at the keys before it looks at the type
DetectSecretChangesKeysFirst(oldSecret, newSecret) ==
    LET addedKeys == {k \in DOMAIN newSecret.data : k \notin DOMAIN oldSecret.data}
        removedKeys == {k \in DOMAIN oldSecret.data : k \notin DOMAIN newSecret.data}
        modifiedKeys == {k \in DOMAIN newSecret.data :
                            k \in DOMAIN oldSecret.data
                            /\ oldSecret.data[k] # newSecret.data[k]}
    IN  IF addedKeys # {}
        THEN {[has |-> TRUE, desc |-> "Keys added: " \o FmtStrings(p)] : p \in Perms(addedKeys)}
        ELSE IF removedKeys # {}
        THEN {[has |-> TRUE, desc |-> "Keys removed: " \o FmtStrings(p)] :
                 p \in Perms(removedKeys)}
        ELSE IF modifiedKeys # {}
        THEN {[has |-> TRUE, desc |-> SecretModifiedText(p, oldSecret, newSecret)] :
                 p \in Perms(modifiedKeys)}
        ELSE IF oldSecret.type # newSecret.type
        THEN {[has |-> TRUE,
               desc |-> "Secret type changed: " \o oldSecret.type \o " → " \o newSecret.type]}
        ELSE {[has |-> FALSE, desc |-> ""]}

\* detectSecretChanges: the (hasChanges, changeDescription) the key orders can give
DetectSecretChanges(oldSecret, newSecret) ==
    LET addedKeys == {k \in DOMAIN newSecret.data : k \notin DOMAIN oldSecret.data}
        removedKeys == {k \in DOMAIN oldSecret.data : k \notin DOMAIN newSecret.data}
        modifiedKeys == {k \in DOMAIN newSecret.data :
                            k \in DOMAIN oldSecret.data
                            /\ oldSecret.data[k] # newSecret.data[k]}
    IN  IF oldSecret.type # newSecret.type
        THEN {[has |-> TRUE,
               desc |-> "Secret type changed: " \o oldSecret.type \o " → " \o newSecret.type]}
        ELSE IF addedKeys = {} /\ removedKeys = {} /\ modifiedKeys = {}
        THEN {[has |-> FALSE, desc |-> ""]}
        ELSE IF addedKeys # {}
        THEN {[has |-> TRUE, desc |-> "Keys added: " \o FmtStrings(p)] : p \in Perms(addedKeys)}
        ELSE IF removedKeys # {}
        THEN {[has |-> TRUE, desc |-> "Keys removed: " \o FmtStrings(p)] :
                 p \in Perms(removedKeys)}
        ELSE {[has |-> TRUE, desc |-> SecretModifiedText(p, oldSecret, newSecret)] :
                 p \in Perms(modifiedKeys)}

\* a check that skips by type alone, whatever the owner references
IsSystemSecretByType(secret) ==
    \/ secret.type = SecretTypeServiceAccountToken
    \/ secret.type = SecretTypeHelmRelease

\* "Skip service account tokens and helm releases (system-generated)"
IsSystemSecret(secret) ==
    \/ secret.type = SecretTypeServiceAccountToken
    \/ secret.type = SecretTypeHelmRelease
    \/ Len(secret.ownerReferences) > 0

\* handleSecretEvent
HandleSecretEvent(t, ts) ==
    LET secret == Subject(t)
        metadatas == {SecretMetadata(secret.type, p) : p \in Perms(DOMAIN secret.data)}
    IN  IF IsSystemNamespace(secret.namespace) THEN {Skip("excluded")}
        ELSE IF IsSystemSecret(secret) THEN {Skip("system-secret")}
        ELSE IF t.type = Modified /\ t.old # None
        THEN {IF ~d.has THEN Skip("unchanged")
              ELSE Save(ChangeEvent(ts, secret.namespace, "Secret", secret.name, t.type,
                                    d.desc, m, "", "")) :
                 d \in DetectSecretChanges(t.old[1], secret), m \in metadatas}
        ELSE IF t.type = Added \/ t.type = Deleted
        THEN {Save(ChangeEvent(ts, secret.namespace, "Secret", secret.name, t.type,
                               IF t.type = Added
                               THEN "Secret created (" \o secret.type \o ") with "
                                    \o ToString(Cardinality(DOMAIN secret.data)) \o " key(s)"
                               ELSE "Secret deleted",
                               m, "", "")) : m \in metadatas}
        ELSE {Skip("ignored")}

-----------------------------------------------------------------------------
(* additional_watchers.go: helpers shared by the six policies *)

RECURSIVE Concat(_)
\* the appends of a loop, one list per iteration, in iteration order
Concat(lists) ==
    IF Len(lists) = 0 THEN << >> ELSE lists[1] \o Concat(Tail(lists))

MinOf2(a, b) == IF a < b THEN a ELSE b

\* the label keys of the model in byte order, the order fmt prints a map in
LabelKeyOrder == << "app", "disk", "tier" >>

\* fmt.Sprintf("%v", map[string]string): "map[k:v k:v]", keys sorted
FmtMap(m) ==
    LET keys == SelectSeq(LabelKeyOrder, LAMBDA k : k \in DOMAIN m)
    IN  "map[" \o Join([i \in 1..Len(keys) |-> keys[i] \o ":" \o m[keys[i]]], " ") \o "]"

\* fmt.Sprintf("%v", bool)
FmtBool(b) == IF b THEN "true" ELSE "false"

\* the image loop of the StatefulSet, DaemonSet, CronJob and Job policies: container
\* i of the new list against container i of the old one, while both exist
ContainerImageChanges(oldContainers, newContainers) ==
    IF Len(oldContainers) > 0 /\ Len(newContainers) > 0
    THEN Concat([i \in 1..MinOf2(Len(oldContainers), Len(newContainers)) |->
                    IF oldContainers[i].image # newContainers[i].image
                    THEN << "Container " \o newContainers[i].name \o " image: "
                            \o oldContainers[i].image \o " → " \o newContainers[i].image >>
                    ELSE << >>])
    ELSE << >>

\* a pointer to int32 compared the way these policies compare it: only when both are set
IntPtrChange(label, oldP, newP) ==
    IF IsSet(oldP) /\ IsSet(newP) /\ oldP[1] # newP[1]
    THEN << label \o ": " \o ToString(oldP[1]) \o " → " \o ToString(newP[1]) >>
    ELSE << >>

StringChange(label, oldS, newS) ==
    IF oldS # newS THEN << label \o ": " \o oldS \o " → " \o newS >> ELSE << >>

CountChange(label, oldN, newN) ==
    IF oldN # newN THEN << label \o ": " \o ToString(oldN) \o " → " \o ToString(newN) >>
    ELSE << >>

\* the end of every policy of additional_watchers.go
Described(header, changes) ==
    IF Len(changes) = 0 THEN [has |-> FALSE, desc |-> ""]
    ELSE [has |-> TRUE, desc |-> header \o Join(changes, "\n")]

\* the event of a MODIFIED transition the policy approved
ModifiedEvent(ts, kind, obj, t, desc, metadata) ==
    ChangeEvent(ts, obj.namespace, kind, obj.name, t.type, desc, metadata, "", "")

\* "For ADDED/DELETED events": the event the six handlers end with
PlainEvent(ts, kind, obj, t) ==
    ChangeEvent(ts, obj.namespace, kind, obj.name, t.type, t.type, "", "", "")

-----------------------------------------------------------------------------
(* Service *)

\* detectServiceChanges
DetectServiceChanges(oldSvc, newSvc) ==
    LET type == StringChange("Type", oldSvc.type, newSvc.type)
        selector ==
            IF FmtMap(oldSvc.selector) # FmtMap(newSvc.selector)
            THEN << "Selector changed" >> ELSE << >>
        ports ==
            IF Len(oldSvc.ports) # Len(newSvc.ports)
            THEN CountChange("Ports count", Len(oldSvc.ports), Len(newSvc.ports))
            ELSE Concat([i \in 1..Len(newSvc.ports) |->
                    LET oldPort == oldSvc.ports[i]
                        newPort == newSvc.ports[i]
                    IN  IF \/ oldPort.port # newPort.port
                           \/ oldPort.targetPort.intVal # newPort.targetPort.intVal
                        THEN << "Port " \o newPort.name \o ": " \o ToString(oldPort.port)
                                \o "/" \o ToString(oldPort.targetPort.intVal) \o " → "
                                \o ToString(newPort.port) \o "/"
                                \o ToString(newPort.targetPort.intVal) >>
                        ELSE << >>])
        oldIPs == Join(oldSvc.externalIPs, ",")
        newIPs == Join(newSvc.externalIPs, ",")
        ips == StringChange("External IPs", oldIPs, newIPs)
    IN  Described("Service configuration changed:\n", type \o selector \o ports \o ips)

\* handleServiceEvent
HandleServiceEvent(t, ts) ==
    LET svc == Subject(t)
    IN  IF IsSystemNamespace(svc.namespace) THEN {Skip("excluded")}
        ELSE IF t.type = Modified /\ t.old # None
        THEN LET d == DetectServiceChanges(t.old[1], svc)
             IN  IF ~d.has THEN {Skip("unchanged")}
                 ELSE {Save(ModifiedEvent(ts, "Service", svc, t, d.desc, ""))}
        ELSE {Save(PlainEvent(ts, "Service", svc, t))}

-----------------------------------------------------------------------------
(* Ingress *)

importantAnnotations ==
    << "nginx.ingress.kubernetes.io/rewrite-target",
       "cert-manager.io/cluster-issuer",
       "kubernetes.io/ingress.class",
       "konghq.com/" >>

\* the path loop of one rule: the backend service of path j, while both are set
IngressPathChanges(oldPaths, newPaths) ==
    Concat([j \in 1..Len(newPaths) |->
        LET oldB == oldPaths[j].backendService
            newB == newPaths[j].backendService
        IN  IF IsSet(oldB) /\ IsSet(newB)
            THEN StringChange("Backend service", oldB[1].name, newB[1].name)
                 \o CountChange("Backend port", oldB[1].portNumber, newB[1].portNumber)
            ELSE << >>])

\* detectIngressChanges
DetectIngressChanges(oldIng, newIng) ==
    LET annotations ==
            Concat([i \in 1..Len(importantAnnotations) |->
                LET key == importantAnnotations[i]
                    oldExists == key \in DOMAIN oldIng.annotations
                    newExists == key \in DOMAIN newIng.annotations
                    oldVal == IF oldExists THEN oldIng.annotations[key] ELSE ""
                    newVal == IF newExists THEN newIng.annotations[key] ELSE ""
                IN  IF oldExists # newExists \/ (oldExists /\ oldVal # newVal)
                    THEN IF newExists
                         THEN << "Annotation " \o key \o ": '" \o oldVal \o "' → '"
                                 \o newVal \o "'" >>
                         ELSE << "Annotation " \o key \o " removed" >>
                    ELSE << >>])
        rules ==
            IF Len(oldIng.rules) # Len(newIng.rules)
            THEN CountChange("Rules count", Len(oldIng.rules), Len(newIng.rules))
            ELSE Concat([i \in 1..Len(newIng.rules) |->
                    LET oldRule == oldIng.rules[i]
                        newRule == newIng.rules[i]
                        host ==
                            IF oldRule.host # newRule.host
                            THEN << "Host changed: " \o oldRule.host \o " → " \o newRule.host >>
                            ELSE << >>
                        paths ==
                            IF IsSet(oldRule.http) /\ IsSet(newRule.http)
                            THEN IF Len(oldRule.http[1]) # Len(newRule.http[1])
                                 THEN CountChange("Paths count for " \o newRule.host,
                                                  Len(oldRule.http[1]), Len(newRule.http[1]))
                                 ELSE IngressPathChanges(oldRule.http[1], newRule.http[1])
                            ELSE << >>
                    IN  host \o paths])
        tls == CountChange("TLS config count", oldIng.tls, newIng.tls)
    IN  Described("Ingress configuration changed:\n", annotations \o rules \o tls)

\* handleIngressEvent
HandleIngressEvent(t, ts) ==
    LET ingress == Subject(t)
    IN  IF IsSystemNamespace(ingress.namespace) THEN {Skip("excluded")}
        ELSE IF t.type = Modified /\ t.old # None
        THEN LET d == DetectIngressChanges(t.old[1], ingress)
             IN  IF ~d.has THEN {Skip("unchanged")}
                 ELSE {Save(ModifiedEvent(ts, "Ingress", ingress, t, d.desc, ""))}
        ELSE {Save(PlainEvent(ts, "Ingress", ingress, t))}

-----------------------------------------------------------------------------
(* StatefulSet *)

\* detectStatefulSetChanges
DetectStatefulSetChanges(oldSS, newSS) ==
    Described("StatefulSet configuration changed:\n",
              IntPtrChange("Replicas", oldSS.replicas, newSS.replicas)
              \o ContainerImageChanges(oldSS.containers, newSS.containers)
              \o StringChange("Service name", oldSS.serviceName, newSS.serviceName)
              \o CountChange("Volume claim templates", oldSS.volumeClaimTemplates,
                             newSS.volumeClaimTemplates)
              \o StringChange("Update strategy", oldSS.updateStrategy, newSS.updateStrategy))

\* handleStatefulSetEvent
HandleStatefulSetEvent(t, ts) ==
    LET ss == Subject(t)
    IN  IF IsSystemNamespace(ss.namespace) THEN {Skip("excluded")}
        ELSE IF t.type = Modified /\ t.old # None
        THEN LET d == DetectStatefulSetChanges(t.old[1], ss)
             IN  IF ~d.has THEN {Skip("unchanged")}
                 ELSE {Save(ModifiedEvent(ts, "StatefulSet", ss, t, d.desc,
                                          ReplicasMetadata(ss)))}
        ELSE {Save(PlainEvent(ts, "StatefulSet", ss, t))}

-----------------------------------------------------------------------------
(* DaemonSet *)

\* detectDaemonSetChanges
DetectDaemonSetChanges(oldDS, newDS) ==
    Described("DaemonSet configuration changed:\n",
              ContainerImageChanges(oldDS.containers, newDS.containers)
              \o StringChange("Update strategy", oldDS.updateStrategy, newDS.updateStrategy)
              \o (IF FmtMap(oldDS.nodeSelector) # FmtMap(newDS.nodeSelector)
                  THEN << "Node selector changed" >> ELSE << >>))

\* handleDaemonSetEvent
HandleDaemonSetEvent(t, ts) ==
    LET ds == Subject(t)
    IN  IF IsSystemNamespace(ds.namespace) THEN {Skip("excluded")}
        ELSE IF t.type = Modified /\ t.old # None
        THEN LET d == DetectDaemonSetChanges(t.old[1], ds)
             IN  IF ~d.has THEN {Skip("unchanged")}
                 ELSE {Save(ModifiedEvent(ts, "DaemonSet", ds, t, d.desc, ""))}
        ELSE {Save(PlainEvent(ts, "DaemonSet", ds, t))}

-----------------------------------------------------------------------------
(* CronJob *)

\* detectCronJobChanges
DetectCronJobChanges(oldCJ, newCJ) ==
    LET oldSuspend == IsSet(oldCJ.suspend) /\ oldCJ.suspend[1]
        newSuspend == IsSet(newCJ.suspend) /\ newCJ.suspend[1]
    IN  Described("CronJob configuration changed:\n",
                  StringChange("Schedule", oldCJ.schedule, newCJ.schedule)
                  \o StringChange("Suspend", FmtBool(oldSuspend), FmtBool(newSuspend))
                  \o ContainerImageChanges(oldCJ.containers, newCJ.containers)
                  \o StringChange("Concurrency policy", oldCJ.concurrencyPolicy,
                                  newCJ.concurrencyPolicy))

\* handleCronJobEvent
HandleCronJobEvent(t, ts) ==
    LET cronjob == Subject(t)
    IN  IF IsSystemNamespace(cronjob.namespace) THEN {Skip("excluded")}
        ELSE IF t.type = Modified /\ t.old # None
        THEN LET d == DetectCronJobChanges(t.old[1], cronjob)
             IN  IF ~d.has THEN {Skip("unchanged")}
                 ELSE {Save(ModifiedEvent(ts, "CronJob", cronjob, t, d.desc, ""))}
        ELSE {Save(PlainEvent(ts, "CronJob", cronjob, t))}

-----------------------------------------------------------------------------
(* Job *)

\* detectJobChanges
DetectJobChanges(oldJob, newJob) ==
    Described("Job configuration changed:\n",
              IntPtrChange("Parallelism", oldJob.parallelism, newJob.parallelism)
              \o IntPtrChange("Completions", oldJob.completions, newJob.completions)
              \o ContainerImageChanges(oldJob.containers, newJob.containers)
              \o IntPtrChange("Backoff limit", oldJob.backoffLimit, newJob.backoffLimit))

\* a handleJobEvent that puts every update to the policy, whatever the status
HandleJobEventPolicyAlways(t, ts) ==
    LET job == Subject(t)
    IN  IF IsSystemNamespace(job.namespace) THEN {Skip("excluded")}
        ELSE IF t.type = Modified /\ t.old # None
        THEN LET d == DetectJobChanges(t.old[1], job)
             IN  IF ~d.has THEN {Skip("unchanged")}
                 ELSE {Save(ModifiedEvent(ts, "Job", job, t, d.desc, ""))}
        ELSE {Save(PlainEvent(ts, "Job", job, t))}

\* handleJobEvent
HandleJobEvent(t, ts) ==
    LET job == Subject(t)
    IN  IF IsSystemNamespace(job.namespace) THEN {Skip("excluded")}
        ELSE IF t.type = Modified /\ t.old # None
        THEN IF job.succeeded > 0 \/ job.failed > 0 THEN {Skip("status")}
             ELSE LET d == DetectJobChanges(t.old[1], job)
                  IN  IF ~d.has THEN {Skip("unchanged")}
                      ELSE {Save(ModifiedEvent(ts, "Job", job, t, d.desc, ""))}
        ELSE {Save(PlainEvent(ts, "Job", job, t))}

-----------------------------------------------------------------------------
(* saveAndNotify and the notifier *)

Kinds ==
    << "Deployment", "ConfigMap", "Secret", "Service", "Ingress",
       "StatefulSet", "DaemonSet", "CronJob", "Job" >>

KindSet == {Kinds[i] : i \in 1..Len(Kinds)}

\* the handler the informer of a kind calls
Handler(kind, t, ts) ==
    CASE kind = "Deployment"  -> HandleDeploymentEvent(t, ts)
      [] kind = "ConfigMap"   -> HandleConfigMapEvent(t, ts)
      [] kind = "Secret"      -> HandleSecretEvent(t, ts)
      [] kind = "Service"     -> HandleServiceEvent(t, ts)
      [] kind = "Ingress"     -> HandleIngressEvent(t, ts)
      [] kind = "StatefulSet" -> HandleStatefulSetEvent(t, ts)
      [] kind = "DaemonSet"   -> HandleDaemonSetEvent(t, ts)
      [] kind = "CronJob"     -> HandleCronJobEvent(t, ts)
      [] kind = "Job"         -> HandleJobEvent(t, ts)

\* what a handler leaves when it returns before saveAndNotify
NotSaved(table, sq, started) ==
    [db |-> table, seq |-> sq, tasks |-> started, called |-> FALSE, err |-> FALSE, id |-> 0]

\* a saveAndNotify that starts the notification although SaveEvent failed
SaveAndNotifyAlways(table, sq, on, started, e, insertOk) ==
    LET saved == SaveEvent(table, sq, e)
    IN  IF insertOk
        THEN [db |-> saved.db, seq |-> saved.seq, called |-> TRUE, err |-> FALSE,
              id |-> saved.id,
              tasks |-> Append(started, [event |-> [e EXCEPT !.ID = saved.id],
                                         state |-> "started"])]
        ELSE [db |-> table, seq |-> sq, called |-> TRUE, err |-> TRUE, id |-> 0,
              tasks |-> Append(started, [event |-> e, state |-> "started"])]

\* saveAndNotify: SaveEvent, and on success one goroutine running NotifyChange when
\* the notifier is enabled.  insertOk: whether the INSERT succeeded
SaveAndNotify(table, sq, on, started, e, insertOk) ==
    IF ~insertOk
    THEN [db |-> table, seq |-> sq, tasks |-> started, called |-> TRUE, err |-> TRUE,
          id |-> 0]
    ELSE LET saved == SaveEvent(table, sq, e)
         IN  [db |-> saved.db, seq |-> saved.seq, called |-> TRUE, err |-> FALSE,
              id |-> saved.id,
              tasks |-> IF on
                        THEN Append(started, [event |-> [e EXCEPT !.ID = saved.id],
                                              state |-> "started"])
                        ELSE started]

\* the record of one SaveEvent call: the id it assigned (0 when the INSERT failed),
\* the kind and the number of the delivery it was made for, and the ID the caller
\* had put in the event
Logged(out, kind, n, given) ==
    [id |-> out.id, ok |-> ~out.err, kind |-> kind, n |-> n, given |-> given]

\* the number of bytes at which NotifyChange cuts a diff
DiffCap == 500

\* s written n times
RECURSIVE Repeat(_, _)
Repeat(s, n) ==
    IF n = 0 THEN "" ELSE IF n = 1 THEN s
    ELSE Repeat(s, n \div 2) \o Repeat(s, n - n \div 2)

\* the characters of s that are the arrow the policies write, which UTF-8 encodes
\* in three bytes; every other character of the model's strings is one byte
Arrows(s) == Cardinality({i \in 1..Len(s) : SubSeq(s, i, i) = "→"})

\* len(s) of a Go string: its number of bytes
ByteLen(s) == Len(s) + 2 * Arrows(s)

\* s[:n] of a Go string longer than n bytes, as the receiver of the JSON payload
\* reads it: the characters that fit whole, and U+FFFD for each byte of a character
\* that was cut, which is how json.Marshal writes invalid UTF-8
FirstBytes(s, n) ==
    LET most == IF Len(s) < n THEN Len(s) ELSE n
        least == n - 2 * Arrows(SubSeq(s, 1, most))
        whole == MaxOf({k \in (IF least < 0 THEN 0 ELSE least)..most :
                           ByteLen(SubSeq(s, 1, k)) <= n})
    IN  SubSeq(s, 1, whole) \o Repeat("�", n - ByteLen(SubSeq(s, 1, whole)))

\* Slack's code mark, the grave accent, which a TLA+ string cannot hold: written
\* as an apostrophe
CodeMark == "'"

\* msg.Attachments[0].Text: empty for an empty diff, else the diff in a code block,
\* cut and marked when len(diff) > 500
DiffText(diff) ==
    IF diff = "" THEN ""
    ELSE CodeMark \o CodeMark \o CodeMark \o "\n"
         \o (IF ByteLen(diff) > DiffCap
             THEN FirstBytes(diff, DiffCap) \o "...\n_(truncated)_"
             ELSE diff)
         \o "\n" \o CodeMark \o CodeMark \o CodeMark

slackField(title, value, short) == [Title |-> title, Value |-> value, Short |-> short]

\* msg.Attachments[0].Fields: Resource, Action, and Image Change when the event has
\* both images
MessageFields(e) ==
    << slackField("Resource", CodeMark \o e.Namespace \o "/" \o e.Name \o CodeMark, TRUE),
       slackField("Action", e.Action, TRUE) >>
    \o (IF e.ImageBefore # "" /\ e.ImageAfter # ""
        THEN << slackField("Image Change",
                           "From: " \o CodeMark \o e.ImageBefore \o CodeMark \o "\nTo: "
                           \o CodeMark \o e.ImageAfter \o CodeMark,
                           FALSE) >>
        ELSE << >>)

\* the message NotifyChange builds for an event; id is the event it was built for
slackMessage(e) ==
    [kind |-> e.Kind, action |-> e.Action, namespace |-> e.Namespace, name |-> e.Name,
     id |-> e.ID, Text |-> DiffText(e.Diff), Fields |-> MessageFields(e)]

\* a NotifyChange that posts a message whatever the action of the event
NotifyChangeAll(on, e) ==
    IF ~on THEN << >>
    ELSE << slackMessage(e) >>

\* NotifyChange: the messages it posts for an event, none or one
NotifyChange(on, e) ==
    IF ~on THEN << >>
    ELSE IF e.Action # Modified /\ e.Action # Deleted THEN << >>
    ELSE << slackMessage(e) >>

-----------------------------------------------------------------------------
(* The objects and transitions the control plane delivers in the model *)

Namespaces == {"default", "kube-system", "kube-public", "kube-node-lease"}

Container(name, image) ==
    [name |-> name, image |-> image, limits |-> [cpu |-> 0, memory |-> 0],
     requests |-> [cpu |-> 0, memory |-> 0], env |-> << >>]

\* every object carries resourceVersion: it changes with every update of the object,
\* status updates included, and no handler reads it
DeploymentBase(ns) ==
    [namespace |-> ns, name |-> "web", resourceVersion |-> 1, replicas |-> Some(2),
     containers |-> << Container("app", "nginx:1.0") >>, strategy |-> "RollingUpdate"]

ConfigMapBase(ns) ==
    [namespace |-> ns, name |-> "web", resourceVersion |-> 1,
     data |-> [mode |-> "fast"]]

SecretBase(ns) ==
    [namespace |-> ns, name |-> "web", resourceVersion |-> 1, type |-> "Opaque",
     ownerReferences |-> << >>, data |-> [password |-> "hunter2"]]

ServiceBase(ns) ==
    [namespace |-> ns, name |-> "web", resourceVersion |-> 1, type |-> "ClusterIP",
     selector |-> [app |-> "web"],
     ports |-> << [name |-> "http", port |-> 80, targetPort |-> [intVal |-> 8080]] >>,
     externalIPs |-> << >>]

IngressBase(ns) ==
    [namespace |-> ns, name |-> "web", resourceVersion |-> 1,
     annotations |-> [k \in {"kubernetes.io/ingress.class"} |-> "nginx"],
     rules |-> << [host |-> "a.example",
                   http |-> Some(<< [backendService |->
                                       Some([name |-> "web", portNumber |-> 80])] >>)] >>,
     tls |-> 0]

StatefulSetBase(ns) ==
    [namespace |-> ns, name |-> "web", resourceVersion |-> 1, replicas |-> Some(2),
     containers |-> << Container("app", "postgres:15") >>, serviceName |-> "web",
     volumeClaimTemplates |-> 1, updateStrategy |-> "RollingUpdate"]

DaemonSetBase(ns) ==
    [namespace |-> ns, name |-> "web", resourceVersion |-> 1,
     containers |-> << Container("app", "fluentd:1.0") >>,
     updateStrategy |-> "RollingUpdate", nodeSelector |-> [disk |-> "ssd"]]

CronJobBase(ns) ==
    [namespace |-> ns, name |-> "web", resourceVersion |-> 1, schedule |-> "0 * * * *",
     suspend |-> None, containers |-> << Container("app", "backup:1.0") >>,
     concurrencyPolicy |-> "Allow"]

JobBase(ns) ==
    [namespace |-> ns, name |-> "web", resourceVersion |-> 1, parallelism |-> Some(1),
     completions |-> Some(1), containers |-> << Container("app", "migrate:1.0") >>,
     backoffLimit |-> Some(6), succeeded |-> 0, failed |-> 0]

\* the objects of a kind in a namespace: the base object, a copy with a specification
\* field changed, then a copy after a status update and, for Secret and Job, the
\* copies their handlers tell apart
Variants(kind, ns) ==
    CASE kind = "Deployment" ->
            LET b == DeploymentBase(ns)
            IN  << b, [b EXCEPT !.replicas = Some(4)], [b EXCEPT !.resourceVersion = 2] >>
      [] kind = "ConfigMap" ->
            LET b == ConfigMapBase(ns)
            IN  << b, [b EXCEPT !.data = [mode |-> "safe"]], [b EXCEPT !.resourceVersion = 2] >>
      [] kind = "Secret" ->
            LET b == SecretBase(ns)
            IN  << b, [b EXCEPT !.data = [password |-> "s3cr3t"]],
                   [b EXCEPT !.data = [password |-> "hunter2", token |-> "abc123"]],
                   [b EXCEPT !.type = "kubernetes.io/tls"],
                   [b EXCEPT !.type = SecretTypeServiceAccountToken],
                   [b EXCEPT !.type = SecretTypeHelmRelease],
                   [b EXCEPT !.ownerReferences = << "cert-manager" >>] >>
      [] kind = "Service" ->
            LET b == ServiceBase(ns)
            IN  << b, [b EXCEPT !.selector = [app |-> "web", tier |-> "front"]],
                   [b EXCEPT !.resourceVersion = 2] >>
      [] kind = "Ingress" ->
            LET b == IngressBase(ns)
            IN  << b, [b EXCEPT !.rules[1].host = "b.example", !.tls = 1],
                   [b EXCEPT !.resourceVersion = 2] >>
      [] kind = "StatefulSet" ->
            LET b == StatefulSetBase(ns)
            IN  << b, [b EXCEPT !.replicas = Some(3)], [b EXCEPT !.resourceVersion = 2] >>
      [] kind = "DaemonSet" ->
            LET b == DaemonSetBase(ns)
            IN  << b, [b EXCEPT !.containers = << Container("app", "fluentd:1.1") >>],
                   [b EXCEPT !.resourceVersion = 2] >>
      [] kind = "CronJob" ->
            LET b == CronJobBase(ns)
            IN  << b, [b EXCEPT !.suspend = Some(TRUE)], [b EXCEPT !.resourceVersion = 2] >>
      [] kind = "Job" ->
            LET b == JobBase(ns)
            IN  << b, [b EXCEPT !.parallelism = Some(2)], [b EXCEPT !.succeeded = 1],
                   [b EXCEPT !.parallelism = Some(2), !.failed = 1] >>

\* the deliveries of one kind's informer.  In namespace default: the add and the
\* delete of every variant and every update from one variant to another (old = new
\* is a resync).  In each other namespace: the add and the delete of the base object
\* and its update to the changed copy.
Transitions(kind) ==
    LET d == Variants(kind, "default")
        all == {d[i] : i \in 1..Len(d)}
    IN       {Transition(Added, None, Some(o)) : o \in all}
        \cup {Transition(Deleted, Some(o), None) : o \in all}
        \cup {Transition(Modified, Some(o), Some(n)) : o \in all, n \in all}
        \cup UNION {LET v == Variants(kind, ns)
                    IN  {Transition(Added, None, Some(v[1])),
                         Transition(Deleted, Some(v[1]), None),
                         Transition(Modified, Some(v[1]), Some(v[2]))}
                    : ns \in Namespaces \ {"default"}}

-----------------------------------------------------------------------------
(* Spec: one kind's handler runs on a delivered transition, from a table that may   *)
(* hold rows of an earlier run; the notification goroutines run on their own.       *)

\* a row an earlier run of the process left in the database file
EarlierRow ==
    Row(3, ChangeEvent(-1, "default", "Deployment", "api", Added, "Deployment created",
                       "{\"replicas\":1}", "", "api:1.0"))

\* the database file at start: new, or with a row of an earlier run whose later
\* rows (ids 4 and 5) a cleanup has deleted
EarlierStore == [db |-> {EarlierRow}, seq |-> 5]

InitialStores == { [db |-> {}, seq |-> 0], EarlierStore }

\* no call of the store's API has returned yet
NoReply == [op |-> "none"]

\* the callers of GET /api/stats
Callers == {"a", "b"}

\* no request is being served
NoRequests == [c \in Callers |-> [pc |-> "none"]]

NoInvocation ==
    [kind |-> "", type |-> "", t |-> Transition("", None, None), result |-> Skip("none"),
     insertOk |-> TRUE, called |-> FALSE, err |-> FALSE, id |-> 0, before |-> {},
     tasksBefore |-> << >>]

Init ==
    /\ \E st \in InitialStores : db = st.db /\ seq = st.seq
    /\ now = 0
    /\ enabled \in BOOLEAN
    /\ tasks = << >>
    /\ outbox = << >>
    /\ handled = 0
    /\ last = NoInvocation
    /\ stopCh = "open"
    /\ mainPc = "serving"
    /\ loops = << >>
    /\ inbox = [k \in KindSet |-> << >>]
    /\ delivered = 0
    /\ idLog = << >>
    /\ calls = 0
    /\ reply = NoReply
    /\ statsCache = None
    /\ statsReqs = NoRequests
    /\ seconds = 0

\* the informer of `kind` calls its handler with t; the handler runs to its return
RunHandler(kind, t) ==
    /\ handled < MaxHandled
    /\ \E r \in Handler(kind, t, now) :
       \E insertOk \in (IF r.save THEN BOOLEAN ELSE {TRUE}) :
          LET out == IF r.save
                     THEN SaveAndNotify(db, seq, enabled, tasks, r.event, insertOk)
                     ELSE NotSaved(db, seq, tasks)
          IN  /\ db' = out.db
              /\ seq' = out.seq
              /\ tasks' = out.tasks
              /\ idLog' = IF out.called
                          THEN Append(idLog, Logged(out, kind, handled + 1, 0))
                          ELSE idLog
              /\ last' = [kind |-> kind, type |-> t.type, t |-> t, result |-> r,
                          insertOk |-> insertOk, called |-> out.called, err |-> out.err,
                          id |-> out.id, before |-> db, tasksBefore |-> tasks]
    /\ handled' = handled + 1

\* the informer of `kind` calls its handler with t, an object of the kind in each
\* snapshot it has; the handler runs to its return
Invoke(kind, t) ==
    /\ RunHandler(kind, t)
    /\ UNCHANGED <<apiVars, reply, now, enabled, outbox, stopCh, mainPc, loops, inbox, delivered, calls>>

DeploymentEvent == \E t \in Transitions("Deployment") : Invoke("Deployment", t)
ConfigMapEvent == \E t \in Transitions("ConfigMap") : Invoke("ConfigMap", t)
SecretEvent == \E t \in Transitions("Secret") : Invoke("Secret", t)
ServiceEvent == \E t \in Transitions("Service") : Invoke("Service", t)
IngressEvent == \E t \in Transitions("Ingress") : Invoke("Ingress", t)
StatefulSetEvent == \E t \in Transitions("StatefulSet") : Invoke("StatefulSet", t)
DaemonSetEvent == \E t \in Transitions("DaemonSet") : Invoke("DaemonSet", t)
CronJobEvent == \E t \in Transitions("CronJob") : Invoke("CronJob", t)
JobEvent == \E t \in Transitions("Job") : Invoke("Job", t)

\* a notification goroutine that posts again after a post that failed
RunNotificationRetrying ==
    /\ \E i \in 1..Len(tasks) :
          /\ tasks[i].state \in {"started", "failed"}
          /\ LET msgs == NotifyChange(enabled, tasks[i].event)
             IN  /\ outbox' = outbox \o msgs
                 /\ \E res \in (IF Len(msgs) = 0 THEN {"done"} ELSE {"done", "failed"}) :
                       tasks' = [tasks EXCEPT ![i].state = res]
    /\ UNCHANGED <<apiVars, reply, db, seq, now, enabled, handled, last, stopCh, mainPc, loops, inbox,
                   delivered, idLog, calls>>

\* one notification goroutine runs NotifyChange to its end: it posts nothing, or
\* posts one message and the post succeeds or fails (logged, nothing else)
RunNotification ==
    /\ \E i \in 1..Len(tasks) :
          /\ tasks[i].state = "started"
          /\ LET msgs == NotifyChange(enabled, tasks[i].event)
             IN  /\ outbox' = outbox \o msgs
                 /\ \E res \in (IF Len(msgs) = 0 THEN {"done"} ELSE {"done", "failed"}) :
                       tasks' = [tasks EXCEPT ![i].state = res]
    /\ UNCHANGED <<apiVars, reply, db, seq, now, enabled, handled, last, stopCh, mainPc, loops, inbox,
                   delivered, idLog, calls>>

Next ==
    \/ DeploymentEvent
    \/ ConfigMapEvent
    \/ SecretEvent
    \/ ServiceEvent
    \/ IngressEvent
    \/ StatefulSetEvent
    \/ DaemonSetEvent
    \/ CronJobEvent
    \/ JobEvent
    \/ RunNotification

Spec == Init /\ [][Next]_vars

-----------------------------------------------------------------------------
(* SpecDeployment: the Deployment handler alone, on Deployments whose updates change
   one checked field or several *)

\* the first container of the base Deployment with resources and environment set
TunedContainer ==
    [Container("app", "nginx:1.0") EXCEPT !.limits = [cpu |-> 2, memory |-> 0],
                                          !.requests = [cpu |-> 1, memory |-> 0],
                                          !.env = << "LOG_LEVEL" >>]

\* the states of Deployment default/web: scaled up, replicas unset, a new image,
\* several fields changed at once, the strategy changed, and a status update
DeploymentVariants ==
    LET b == DeploymentBase("default")
    IN  { b,
          [b EXCEPT !.replicas = Some(4)],
          [b EXCEPT !.replicas = None],
          [b EXCEPT !.containers = << Container("app", "nginx:1.1") >>],
          [b EXCEPT !.replicas = Some(4),
                    !.containers = << Container("app", "nginx:1.1") >>,
                    !.strategy = "Recreate"],
          [b EXCEPT !.containers = << TunedContainer >>],
          [b EXCEPT !.containers = << [TunedContainer EXCEPT !.image = "nginx:1.1"] >>,
                    !.strategy = "Recreate"],
          [b EXCEPT !.strategy = "Recreate"],
          [b EXCEPT !.resourceVersion = 2] }

\* the deliveries of the Deployment informer: adds, deletes, updates and resyncs
DeploymentTransitions ==
         {Transition(Added, None, Some(o)) : o \in DeploymentVariants}
    \cup {Transition(Deleted, Some(o), None) : o \in DeploymentVariants}
    \cup {Transition(Modified, Some(o), Some(n)) : o \in DeploymentVariants,
                                                   n \in DeploymentVariants}

DeploymentChange == \E t \in DeploymentTransitions : Invoke("Deployment", t)

NextDeployment ==
    \/ DeploymentChange
    \/ RunNotification

SpecDeployment == Init /\ [][NextDeployment]_vars

-----------------------------------------------------------------------------
(* SpecConfigMap: the ConfigMap handler alone, on ConfigMaps whose updates add,
   remove and change keys, one at a time and together *)

\* ConfigMap default/web with the data given
ConfigMapWith(data) == [ConfigMapBase("default") EXCEPT !.data = data]

\* the states of ConfigMap default/web: from one to another a key is added, removed
\* or changed, or several of these happen at once
ConfigMapVariants ==
    { ConfigMapWith([mode |-> "fast"]),
      ConfigMapWith([mode |-> "safe"]),
      ConfigMapWith([mode |-> "fast", level |-> "high"]),
      ConfigMapWith([mode |-> "safe", ttl |-> "60s"]),
      [ConfigMapBase("default") EXCEPT !.resourceVersion = 2] }

\* the deliveries of the ConfigMap informer: adds, deletes, updates and resyncs
ConfigMapTransitions ==
         {Transition(Added, None, Some(o)) : o \in ConfigMapVariants}
    \cup {Transition(Deleted, Some(o), None) : o \in ConfigMapVariants}
    \cup {Transition(Modified, Some(o), Some(n)) : o \in ConfigMapVariants,
                                                   n \in ConfigMapVariants}

ConfigMapChange == \E t \in ConfigMapTransitions : Invoke("ConfigMap", t)

NextConfigMap ==
    \/ ConfigMapChange
    \/ RunNotification

SpecConfigMap == Init /\ [][NextConfigMap]_vars

-----------------------------------------------------------------------------
(* SpecPipeline: main calls Start and later Stop; the nine watch loops run          *)
(* concurrently, each calling its handler on its informer's deliveries one at a     *)
(* time; a handler that records is between its decision and its INSERT for a while,  *)
(* so the loops, Stop and the notification goroutines interleave there.             *)

\* a delivery: the transition and its number in the order of arrival
Delivery(n, t) == [n |-> n, t |-> t]

NoDelivery == Delivery(0, Transition("", None, None))

\* a Start that has lost its last go statement
GoStatementsWithoutJobs == SubSeq(Kinds, 1, Len(Kinds) - 1)

\* the go statements of Start, in order: the kind each one watches
GoStatements == Kinds

\* watchX: an informer of the kind whose controller runs until w.stopCh is closed.
\* pc: "waiting" in the informer for a delivery, or "saving" inside the handler
\* before saveAndNotify, with the delivery it was called on and the event it is
\* about to record
WatchLoop(kind) ==
    [kind |-> kind, pc |-> "waiting", stop |-> "stopCh", item |-> NoDelivery,
     event |-> NoEvent]

\* the value of the channel a loop was given
Chan(name) == IF name = "stopCh" THEN stopCh ELSE "open"

\* a delivery the informer hands to the handler after the others of its kind
PopNewest(queue) ==
    [item |-> queue[Len(queue)], rest |-> SubSeq(queue, 1, Len(queue) - 1)]

\* the informer hands its deliveries to the handler in the order it received them
Pop(queue) == [item |-> Head(queue), rest |-> Tail(queue)]

\* the kinds that have objects in the model's cluster
ClusterKinds == {"Deployment", "Secret"}

\* what their informers deliver: the update of the base object to the changed copy,
\* and a resync of the base object
ClusterTransitions(kind) ==
    LET v == Variants(kind, "default")
    IN  {Transition(Modified, Some(v[1]), Some(v[2])),
         Transition(Modified, Some(v[1]), Some(v[1]))}

InitPipeline ==
    /\ db = {}
    /\ seq = 0
    /\ now = 0
    /\ enabled \in BOOLEAN
    /\ tasks = << >>
    /\ outbox = << >>
    /\ handled = 0
    /\ last = NoInvocation
    /\ stopCh = "open"
    /\ mainPc = "created"
    /\ loops = << >>
    /\ inbox = [k \in KindSet |-> << >>]
    /\ delivered = 0
    /\ idLog = << >>
    /\ calls = 0
    /\ reply = NoReply
    /\ statsCache = None
    /\ statsReqs = NoRequests
    /\ seconds = 0

\* Start: one goroutine per go statement, and the return
Start ==
    /\ mainPc = "created"
    /\ loops' = [i \in 1..Len(GoStatements) |-> WatchLoop(GoStatements[i])]
    /\ mainPc' = "started"
    /\ UNCHANGED <<apiVars, reply, db, seq, now, enabled, tasks, outbox, handled, last, stopCh, inbox,
                   delivered, idLog, calls>>

\* Stop: close(w.stopCh), the log line, and the return
Stop ==
    /\ mainPc = "started"
    /\ stopCh' = "closed"
    /\ mainPc' = "stopped"
    /\ UNCHANGED <<apiVars, reply, db, seq, now, enabled, tasks, outbox, handled, last, loops, inbox,
                   delivered, idLog, calls>>

\* the control plane delivers a transition to the informer of a running loop
Deliver ==
    /\ delivered < MaxDelivered
    /\ \E i \in 1..Len(loops) :
          /\ Chan(loops[i].stop) = "open"
          /\ loops[i].kind \in ClusterKinds
          /\ \E t \in ClusterTransitions(loops[i].kind) :
                inbox' = [inbox EXCEPT ![loops[i].kind] =
                             Append(@, Delivery(delivered + 1, t))]
    /\ delivered' = delivered + 1
    /\ UNCHANGED <<apiVars, reply, db, seq, now, enabled, tasks, outbox, handled, last, stopCh, mainPc,
                   loops, idLog, calls>>

\* loop i calls its handler on its next delivery; the handler returns at once when
\* it records nothing, and is otherwise about to call saveAndNotify
LoopTake(i) ==
    /\ loops[i].pc = "waiting"
    /\ Chan(loops[i].stop) = "open"
    /\ inbox[loops[i].kind] # << >>
    /\ LET d == Pop(inbox[loops[i].kind])
       IN  /\ inbox' = [inbox EXCEPT ![loops[i].kind] = d.rest]
           /\ \E r \in Handler(loops[i].kind, d.item.t, now) :
                 loops' = IF r.save
                          THEN [loops EXCEPT ![i].pc = "saving", ![i].item = d.item,
                                             ![i].event = r.event]
                          ELSE loops
    /\ handled' = handled + 1
    /\ UNCHANGED <<apiVars, reply, db, seq, now, enabled, tasks, outbox, last, stopCh, mainPc, delivered,
                   idLog, calls>>

\* a handler that calls NotifyChange itself and waits for the answer
LoopSaveInline(i) ==
    /\ loops[i].pc = "saving"
    /\ \E insertOk \in BOOLEAN :
          LET out == SaveAndNotify(db, seq, FALSE, tasks, loops[i].event, insertOk)
              called == enabled /\ ~out.err
          IN  /\ db' = out.db
              /\ seq' = out.seq
              /\ tasks' = IF called
                          THEN Append(tasks, [event |-> [loops[i].event EXCEPT
                                                            !.ID = out.id],
                                              state |-> "started"])
                          ELSE tasks
              /\ idLog' = Append(idLog, Logged(out, loops[i].kind, loops[i].item.n, 0))
              /\ loops' = [loops EXCEPT ![i].pc = IF called THEN "notifying"
                                                  ELSE "waiting",
                                        ![i].item = NoDelivery, ![i].event = NoEvent]
    /\ UNCHANGED <<apiVars, reply, now, enabled, outbox, handled, last, stopCh, mainPc, inbox, delivered,
                   calls>>

\* the handler of loop i calls saveAndNotify, logs its error if it returns one, and
\* returns to the informer
LoopSave(i) ==
    /\ loops[i].pc = "saving"
    /\ \E insertOk \in BOOLEAN :
          LET out == SaveAndNotify(db, seq, enabled, tasks, loops[i].event, insertOk)
          IN  /\ db' = out.db
              /\ seq' = out.seq
              /\ tasks' = out.tasks
              /\ idLog' = Append(idLog, Logged(out, loops[i].kind, loops[i].item.n, 0))
              /\ loops' = [loops EXCEPT ![i] = WatchLoop(loops[i].kind)]
    /\ UNCHANGED <<apiVars, reply, now, enabled, outbox, handled, last, stopCh, mainPc, inbox, delivered,
                   calls>>

LoopStep(i) == LoopTake(i) \/ LoopSave(i)

Loop == \E i \in 1..Len(loops) : LoopStep(i)

NextPipeline ==
    \/ Start
    \/ Stop
    \/ Deliver
    \/ Loop
    \/ RunNotification

\* the Go scheduler runs a goroutine that can run and the INSERT returns, so the
\* loops are weakly fair; the chat service owes no answer, so the notification
\* goroutines are not
SpecPipeline ==
    /\ InitPipeline
    /\ [][NextPipeline]_vars
    /\ WF_vars(Loop)

-----------------------------------------------------------------------------
(* SpecStore: the operations of the store called directly, on a database file that   *)
(* an earlier run has written, while the clock advances.                              *)

\* the ID fields callers leave in the events they pass to SaveEvent
CallerIds == {0, 1, 7}

InitStore ==
    /\ db = EarlierStore.db
    /\ seq = EarlierStore.seq
    /\ now = 0
    /\ enabled = FALSE
    /\ tasks = << >>
    /\ outbox = << >>
    /\ handled = 0
    /\ last = NoInvocation
    /\ stopCh = "open"
    /\ mainPc = "serving"
    /\ loops = << >>
    /\ inbox = [k \in KindSet |-> << >>]
    /\ delivered = 0
    /\ idLog = << >>
    /\ calls = 0
    /\ reply = NoReply
    /\ statsCache = None
    /\ statsReqs = NoRequests
    /\ seconds = 0

\* SaveEvent(event) with an event of the given kind whose ID field the caller set
CallSaveEvent ==
    /\ calls < MaxCalls
    /\ \E given \in CallerIds, kind \in {"Deployment", "ConfigMap"}, insertOk \in BOOLEAN :
          LET e == [ChangeEvent(now, "default", kind, "web", Added, "ADDED", "", "", "")
                       EXCEPT !.ID = given]
              saved == SaveEvent(db, seq, e)
              out == IF insertOk
                     THEN [db |-> saved.db, seq |-> saved.seq, id |-> saved.id,
                           err |-> FALSE]
                     ELSE [db |-> db, seq |-> seq, id |-> 0, err |-> TRUE]
          IN  /\ db' = out.db
              /\ seq' = out.seq
              /\ idLog' = Append(idLog, Logged(out, kind, calls + 1, given))
              /\ reply' = [op |-> "SaveEvent", err |-> out.err]
    /\ calls' = calls + 1
    /\ UNCHANGED <<apiVars, now, enabled, tasks, outbox, handled, last, stopCh, mainPc, loops,
                   inbox, delivered>>

\* CleanupOldEvents(retentionDays)
CallCleanupOldEvents ==
    /\ calls < MaxCalls
    /\ \E retentionDays \in {0, 1} :
          LET out == CleanupOldEvents(db, now, retentionDays)
          IN  /\ db' = out.db
              /\ reply' = [op |-> "CleanupOldEvents", days |-> retentionDays,
                           deleted |-> out.deleted, at |-> now, before |-> db,
                           previous |-> IF reply.op = "CleanupOldEvents"
                                           /\ reply.days = retentionDays
                                        THEN Some(reply.at) ELSE None]
    /\ calls' = calls + 1
    /\ UNCHANGED <<apiVars, seq, now, enabled, tasks, outbox, handled, last, stopCh, mainPc, loops,
                   inbox, delivered, idLog>>

\* the filters the read calls are made with
StoreFilters ==
    { Filter("", "", "", "", None, None, 0, 0),
      Filter("default", "ConfigMap", "", "", None, None, 1, 0) }

\* GetEvents(filter): a SELECT, the answer goes to the caller
CallGetEvents ==
    /\ calls < MaxCalls
    /\ \E filter \in StoreFilters : GetEvents(db, filter) # {}
    /\ calls' = calls + 1
    /\ UNCHANGED <<apiVars, reply, db, seq, now, enabled, tasks, outbox, handled, last, stopCh,
                   mainPc, loops, inbox, delivered, idLog>>

\* GetTotalCount(filter): a SELECT
CallGetTotalCount ==
    /\ calls < MaxCalls
    /\ \E filter \in StoreFilters : GetTotalCount(db, filter) >= 0
    /\ calls' = calls + 1
    /\ UNCHANGED <<apiVars, reply, db, seq, now, enabled, tasks, outbox, handled, last, stopCh,
                   mainPc, loops, inbox, delivered, idLog>>

\* GetTimeline(namespace, kind, name): a SELECT
CallGetTimeline ==
    /\ calls < MaxCalls
    /\ GetTimeline(db, "default", "Deployment", "web") # {}
    /\ calls' = calls + 1
    /\ UNCHANGED <<apiVars, reply, db, seq, now, enabled, tasks, outbox, handled, last, stopCh,
                   mainPc, loops, inbox, delivered, idLog>>

\* GetStats(): five SELECTs
CallGetStats ==
    /\ calls < MaxCalls
    /\ GetStats(db, now) # {}
    /\ calls' = calls + 1
    /\ UNCHANGED <<apiVars, reply, db, seq, now, enabled, tasks, outbox, handled, last, stopCh,
                   mainPc, loops, inbox, delivered, idLog>>

\* a day passes
Tick ==
    /\ now < 24 * MaxClock
    /\ now' = now + 24
    /\ UNCHANGED <<apiVars, reply, db, seq, enabled, tasks, outbox, handled, last, stopCh, mainPc, loops,
                   inbox, delivered, idLog, calls>>

NextStore ==
    \/ CallSaveEvent
    \/ CallCleanupOldEvents
    \/ CallGetEvents
    \/ CallGetTotalCount
    \/ CallGetTimeline
    \/ CallGetStats
    \/ Tick

SpecStore == InitStore /\ [][NextStore]_vars

-----------------------------------------------------------------------------
(* SpecSecret: the Secret handler on Secrets of every type and ownership, in two
   namespaces of the operator's and a reserved one *)

SecretNamespaces == {"default", "prod", "kube-system"}

\* the Secrets of Spec, and one whose type and keys both differ from the base's
SecretVariants(ns) ==
    Variants("Secret", ns)
    \o << [SecretBase(ns) EXCEPT !.type = "kubernetes.io/tls",
                                 !.data = [password |-> "s3cr3t", cert |-> "pem"]] >>

\* in each namespace: the add and the delete of every variant, and every update
\* from one variant to another (old = new is a resync)
SecretTransitions ==
    UNION {LET v == SecretVariants(ns)
               all == {v[i] : i \in 1..Len(v)}
           IN       {Transition(Added, None, Some(o)) : o \in all}
               \cup {Transition(Deleted, Some(o), None) : o \in all}
               \cup {Transition(Modified, Some(o), Some(n)) : o \in all, n \in all}
           : ns \in SecretNamespaces}

SecretChange == \E t \in SecretTransitions : Invoke("Secret", t)

NextSecret ==
    \/ SecretChange
    \/ RunNotification

SpecSecret == Init /\ [][NextSecret]_vars

-----------------------------------------------------------------------------
(* SpecIngress: the Ingress handler on updates of annotations, rules, hosts, paths,
   backends and TLS blocks *)

\* one HTTPIngressPath: its Path and the Service of its Backend (nil for a backend
\* that is a Resource)
IngressPath(path, backendService) == [path |-> path, backendService |-> backendService]

\* the Ingress of Spec with its path written out, and copies that differ from it in
\* one place each
IngressVariants ==
    LET web == Some([name |-> "web", portNumber |-> 80])
        b == [IngressBase("default") EXCEPT
                 !.rules[1].http = Some(<< IngressPath("/", web) >>)]
        rule == b.rules[1]
    IN  << b,
           [b EXCEPT !.annotations = [k \in {"kubernetes.io/ingress.class"} |-> "kong"]],
           [b EXCEPT !.annotations = [k \in {"kubernetes.io/ingress.class",
                                             "cert-manager.io/cluster-issuer"} |->
                                         IF k = "kubernetes.io/ingress.class" THEN "nginx"
                                         ELSE "letsencrypt"]],
           [b EXCEPT !.annotations = [k \in {"kubernetes.io/ingress.class",
                                             "example.com/owner"} |->
                                         IF k = "kubernetes.io/ingress.class" THEN "nginx"
                                         ELSE "team-a"]],
           [b EXCEPT !.rules = << rule, [rule EXCEPT !.host = "b.example"] >>],
           [b EXCEPT !.rules[1].host = "b.example"],
           [b EXCEPT !.rules[1].http = Some(<< IngressPath("/v2", web) >>)],
           [b EXCEPT !.rules[1].http = Some(<< IngressPath("/", web),
                                               IngressPath("/v2", web) >>)],
           [b EXCEPT !.rules[1].http =
               Some(<< IngressPath("/", Some([name |-> "api", portNumber |-> 80])) >>)],
           [b EXCEPT !.rules[1].http =
               Some(<< IngressPath("/", Some([name |-> "web", portNumber |-> 8080])) >>)],
           [b EXCEPT !.rules[1].http = Some(<< IngressPath("/", None) >>)],
           [b EXCEPT !.tls = 1],
           [b EXCEPT !.resourceVersion = 2] >>

\* the add and the delete of every variant and every update from one to another
IngressTransitions ==
    LET all == {IngressVariants[i] : i \in 1..Len(IngressVariants)}
    IN       {Transition(Added, None, Some(o)) : o \in all}
        \cup {Transition(Deleted, Some(o), None) : o \in all}
        \cup {Transition(Modified, Some(o), Some(n)) : o \in all, n \in all}

IngressChange == \E t \in IngressTransitions : Invoke("Ingress", t)

NextIngress ==
    \/ IngressChange
    \/ RunNotification

SpecIngress == Init /\ [][NextIngress]_vars

-----------------------------------------------------------------------------
(* SpecNotify: NotifyChange called on events whose diffs are around the cap *)

\* diffs: none, a short one, of exactly the cap, one character over it, under the
\* cap in characters and over it in bytes, with the cap inside a character, and
\* well over the cap
NotifiedDiffs ==
    {"", "Scaled up: 2 → 4 replicas", Repeat("x", DiffCap), Repeat("x", DiffCap + 1),
     Repeat("x", DiffCap - 2) \o "→", Repeat("x", DiffCap - 1) \o "→yz",
     Repeat("key: value\n", 60)}

NotifiedEvents ==
    {ChangeEvent(0, "default", "ConfigMap", "web", action, diff, "{\"keys\":[\"mode\"]}",
                 image, image)
        : action \in {Added, Modified}, diff \in NotifiedDiffs, image \in {"", "nginx:1.0"}}

\* the goroutine of saveAndNotify calls NotifyChange on a stored event
CallNotifyChange ==
    /\ calls < MaxNotified
    /\ \E e \in NotifiedEvents :
          /\ outbox' = outbox \o NotifyChange(enabled, e)
          /\ reply' = [op |-> "NotifyChange", event |-> e]
    /\ calls' = calls + 1
    /\ UNCHANGED <<apiVars, db, seq, now, enabled, tasks, handled, last, stopCh, mainPc,
                   loops, inbox, delivered, idLog>>

NextNotify == CallNotifyChange

SpecNotify == Init /\ [][NextNotify]_vars

-----------------------------------------------------------------------------
(* SpecInformer: the callbacks of an informer called with interface{} values, which
   are not all objects of the informer's kind *)

\* the dynamic type of the objects an informer of the kind lists and watches
GoType(kind) == "*" \o kind

\* a non-nil interface{} value: its dynamic type and what it holds
Boxed(type, obj) == Some([type |-> type, obj |-> obj])

\* cache.DeletedFinalStateUnknown{Key, Obj}: what DeleteFunc is given when the watch
\* missed the deletion and the object's last known state is all there is
DeletedFinalStateUnknown(obj) == Boxed("cache.DeletedFinalStateUnknown", obj)

\* x.(*T) for a non-nil x: panics unless the dynamic type of x is *T
TypeAssert(kind, x) ==
    IF x = None THEN [panic |-> FALSE, ptr |-> None]
    ELSE IF x[1].type = GoType(kind) THEN [panic |-> FALSE, ptr |-> Some(x[1].obj)]
    ELSE [panic |-> TRUE, ptr |-> None]

\* the head of handleDeploymentEvent and of handleServiceEvent: the type assertions
\* on the snapshots that are not nil, then the first read of a field of the object,
\* which panics when both were nil
TypedSnapshots(kind, oldObj, newObj) ==
    LET new == TypeAssert(kind, newObj)
        old == TypeAssert(kind, oldObj)
    IN  [panic |-> new.panic \/ old.panic \/ (new.ptr = None /\ old.ptr = None),
         old |-> old.ptr, new |-> new.ptr]

\* what the callbacks of the kind's informer hand to its handler: the deliveries of
\* Spec with their objects as interface{} values; a DeleteFunc for a missed
\* deletion; a call with no snapshot at all
Callbacks(kind) ==
    LET T == GoType(kind)
        Box(ptr) == IF ptr = None THEN None ELSE Boxed(T, ptr[1])
        v == Variants(kind, "default")
    IN       {Transition(t.type, Box(t.old), Box(t.new)) : t \in Transitions(kind)}
        \cup {Transition(Deleted, DeletedFinalStateUnknown(v[1]), None),
              Transition(Deleted, None, None)}

\* one callback of the informer of `kind`: a panic in the handler is recovered
\* nowhere in the watch goroutine and ends the process; otherwise the handler runs
\* to its return
InformerCallback(kind) ==
    /\ mainPc = "serving"
    /\ handled < MaxHandled
    /\ \E d \in Callbacks(kind) :
          LET s == TypedSnapshots(kind, d.old, d.new)
          IN  /\ reply' = [op |-> "callback", kind |-> kind, d |-> d]
              /\ IF s.panic
                 THEN /\ mainPc' = "crashed"
                      /\ handled' = handled + 1
                      /\ UNCHANGED <<db, seq, tasks, idLog, last>>
                 ELSE /\ RunHandler(kind, Transition(d.type, s.old, s.new))
                      /\ UNCHANGED mainPc
    /\ UNCHANGED <<apiVars, now, enabled, outbox, stopCh, loops, inbox, delivered, calls>>

DeploymentCallback == InformerCallback("Deployment")
ServiceCallback == InformerCallback("Service")

\* a notification goroutine of the running process
InformerNotification == mainPc = "serving" /\ RunNotification

NextInformer ==
    \/ DeploymentCallback
    \/ ServiceCallback
    \/ InformerNotification

SpecInformer == Init /\ [][NextInformer]_vars

-----------------------------------------------------------------------------
(* SpecCache: GET /api/stats served to concurrent callers through Server.statsCache,
   while events are saved and the wall clock advances *)

\* const cacheTTL = 10 * time.Second, in seconds
cacheTTL == 10

\* &cacheEntry{data, timestamp}; readAt, which the program does not keep, is the time
\* at which data was read from the store
CacheEntry(data, timestamp, readAt) ==
    [data |-> data, timestamp |-> timestamp, readAt |-> readAt]

\* time.Since(s.statsCache.timestamp) < cacheTTL, the cache not being nil
CacheFresh == statsCache # None /\ seconds - statsCache[1].timestamp < cacheTTL

\* what a request answered: the stats encoded, whether they came from the cache,
\* when they had been read from the store and when the answer was written; for an
\* answer that replaced the cache, when the stats it replaced had been read
StatsResponse(c, cached, data, readAt, replaced) ==
    [op |-> "getStats", caller |-> c, cached |-> cached, stats |-> data,
     readAt |-> readAt, at |-> seconds, replaced |-> replaced]

InitCache ==
    /\ db = EarlierStore.db
    /\ seq = EarlierStore.seq
    /\ now = 0
    /\ enabled = FALSE
    /\ tasks = << >>
    /\ outbox = << >>
    /\ handled = 0
    /\ last = NoInvocation
    /\ stopCh = "open"
    /\ mainPc = "serving"
    /\ loops = << >>
    /\ inbox = [k \in KindSet |-> << >>]
    /\ delivered = 0
    /\ idLog = << >>
    /\ calls = 0
    /\ reply = NoReply
    /\ statsCache = None
    /\ statsReqs = NoRequests
    /\ seconds = 0

\* getStats, the section under cacheMutex.RLock: a fresh cache is encoded as the
\* answer; otherwise the request goes on to fetch
StatsCheckCache(c) ==
    /\ statsReqs[c].pc = "none"
    /\ IF CacheFresh
       THEN /\ reply' = StatsResponse(c, TRUE, statsCache[1].data, statsCache[1].readAt,
                                      None)
            /\ UNCHANGED statsReqs
       ELSE /\ statsReqs' = [statsReqs EXCEPT ![c] = [pc |-> "fetch"]]
            /\ UNCHANGED reply
    /\ UNCHANGED <<db, seq, now, enabled, tasks, outbox, handled, last, stopCh, mainPc,
                   loops, inbox, delivered, idLog, calls, statsCache, seconds>>

\* getStats: s.storage.GetStats(), no lock held
StatsFetch(c) ==
    /\ statsReqs[c].pc = "fetch"
    /\ \E out \in GetStats(db, now) :
          statsReqs' = [statsReqs EXCEPT ![c] = [pc |-> "update", stats |-> out,
                                                 readAt |-> seconds]]
    /\ UNCHANGED <<db, seq, now, enabled, tasks, outbox, handled, last, stopCh, mainPc,
                   loops, inbox, delivered, idLog, calls, reply, statsCache, seconds>>

\* getStats, the section under cacheMutex.Lock and the answer: the cache is replaced
\* by the stats fetched, stamped time.Now(), and the stats are encoded
StatsUpdateCache(c) ==
    /\ statsReqs[c].pc = "update"
    /\ statsCache' = Some(CacheEntry(statsReqs[c].stats, seconds, statsReqs[c].readAt))
    /\ reply' = StatsResponse(c, FALSE, statsReqs[c].stats, statsReqs[c].readAt,
                              IF statsCache = None THEN None
                              ELSE Some(statsCache[1].readAt))
    /\ statsReqs' = [statsReqs EXCEPT ![c] = [pc |-> "none"]]
    /\ UNCHANGED <<db, seq, now, enabled, tasks, outbox, handled, last, stopCh, mainPc,
                   loops, inbox, delivered, idLog, calls, seconds>>

\* a watch loop saves an event meanwhile
CacheSave ==
    /\ calls < MaxCalls
    /\ LET saved == SaveEvent(db, seq, ChangeEvent(now, "default", "Deployment", "web",
                                                   Modified, "Scaled up: 2 → 4 replicas",
                                                   "{\"replicas\":4}", "nginx:1.0",
                                                   "nginx:1.0"))
       IN  db' = saved.db /\ seq' = saved.seq
    /\ calls' = calls + 1
    /\ UNCHANGED <<apiVars, now, enabled, tasks, outbox, handled, last, stopCh, mainPc,
                   loops, inbox, delivered, idLog, reply>>

\* half a TTL passes
CacheTick ==
    /\ seconds < (cacheTTL \div 2) * MaxTicks
    /\ seconds' = seconds + cacheTTL \div 2
    /\ UNCHANGED <<db, seq, now, enabled, tasks, outbox, handled, last, stopCh, mainPc,
                   loops, inbox, delivered, idLog, calls, reply, statsCache, statsReqs>>

NextCache ==
    \/ \E c \in Callers : StatsCheckCache(c)
    \/ \E c \in Callers : StatsFetch(c)
    \/ \E c \in Callers : StatsUpdateCache(c)
    \/ CacheSave
    \/ CacheTick

SpecCache == InitCache /\ [][NextCache]_vars

-----------------------------------------------------------------------------
(* SpecRetention: main from the opening of the store to the end of the process, with
   the goroutine that cleans up on every tick of its 24-hour ticker *)

InitRetention ==
    /\ db = EarlierStore.db
    /\ seq = EarlierStore.seq
    /\ now = 0
    /\ enabled = FALSE
    /\ tasks = << >>
    /\ outbox = << >>
    /\ handled = 0
    /\ last = NoInvocation
    /\ stopCh = "open"
    /\ mainPc = "opened"
    /\ loops = << >>
    /\ inbox = [k \in KindSet |-> << >>]
    /\ delivered = 0
    /\ idLog = << >>
    /\ calls = 0
    /\ reply = NoReply
    /\ statsCache = None
    /\ statsReqs = NoRequests
    /\ seconds = 0

\* main: "Initial cleanup of old events", with the -retention flag of this run
MainInitialCleanup ==
    /\ mainPc = "opened"
    /\ \E retentionDays \in {0, 1} :
          LET out == CleanupOldEvents(db, now, retentionDays)
          IN  /\ db' = out.db
              /\ reply' = [op |-> "CleanupOldEvents", days |-> retentionDays,
                           deleted |-> out.deleted, at |-> now, before |-> db,
                           previous |-> None]
    /\ mainPc' = "cleaned"
    /\ UNCHANGED <<apiVars, seq, now, enabled, tasks, outbox, handled, last, stopCh, loops,
                   inbox, delivered, idLog, calls>>

\* main: the go statement of the periodic cleanup, then the watcher and the API
\* server are started and main waits on sigCh
MainServe ==
    /\ mainPc = "cleaned"
    /\ mainPc' = "running"
    /\ UNCHANGED <<apiVars, reply, db, seq, now, enabled, tasks, outbox, handled, last,
                   stopCh, loops, inbox, delivered, idLog, calls>>

\* SIGINT or SIGTERM arrives: main logs "Shutting down gracefully..."
MainSignal ==
    /\ mainPc = "running"
    /\ mainPc' = "shutting"
    /\ UNCHANGED <<apiVars, reply, db, seq, now, enabled, tasks, outbox, handled, last,
                   stopCh, loops, inbox, delivered, idLog, calls>>

\* main returns: the deferred w.Stop() closes stopCh
MainStop ==
    /\ mainPc = "shutting"
    /\ stopCh' = "closed"
    /\ mainPc' = "stopped"
    /\ UNCHANGED <<apiVars, reply, db, seq, now, enabled, tasks, outbox, handled, last,
                   loops, inbox, delivered, idLog, calls>>

\* the deferred store.Close() and the end of the process, which ends every goroutine
MainExit ==
    /\ mainPc = "stopped"
    /\ mainPc' = "exited"
    /\ UNCHANGED <<apiVars, reply, db, seq, now, enabled, tasks, outbox, handled, last,
                   stopCh, loops, inbox, delivered, idLog, calls>>

\* the goroutine started by main: `for range ticker.C`, one CleanupOldEvents per
\* tick, 24 hours after the one before; the loop reads nothing but the ticker
PeriodicCleanup ==
    /\ mainPc \in {"running", "shutting", "stopped"}
    /\ now < 24 * MaxClock
    /\ now' = now + 24
    /\ LET out == CleanupOldEvents(db, now', reply.days)
       IN  /\ db' = out.db
           /\ reply' = [op |-> "CleanupOldEvents", days |-> reply.days,
                        deleted |-> out.deleted, at |-> now', before |-> db,
                        previous |-> Some(reply.at)]
    /\ UNCHANGED <<apiVars, seq, enabled, tasks, outbox, handled, last, stopCh, mainPc,
                   loops, inbox, delivered, idLog, calls>>

\* a watch loop of the running process saves an event
RetentionSave == mainPc \in {"running", "shutting", "stopped"} /\ CacheSave

NextRetention ==
    \/ MainInitialCleanup
    \/ MainServe
    \/ MainSignal
    \/ MainStop
    \/ MainExit
    \/ PeriodicCleanup
    \/ RetentionSave

SpecRetention == InitRetention /\ [][NextRetention]_vars

-----------------------------------------------------------------------------
(* SpecEvents: GET /api/events served while events are saved and cleaned up *)

\* the filters of the requests: limit absent (the default page size, 50) or 1,
\* offset absent or 1
EventsFilters ==
    {Filter("", "", "", "", None, None, limit, offset) : limit \in {1, 50},
                                                         offset \in {0, 1}}

\* getEvents: the filter is parsed and s.storage.GetEvents(filter) returns; an
\* error is answered with status 500
EventsPage(c) ==
    /\ statsReqs[c].pc = "none"
    /\ \E filter \in EventsFilters : \E out \in GetEvents(db, filter) :
          IF out.err
          THEN /\ reply' = [op |-> "getEvents", status |-> 500]
               /\ UNCHANGED statsReqs
          ELSE /\ statsReqs' = [statsReqs EXCEPT ![c] = [pc |-> "count", filter |-> filter,
                                                         events |-> out.events]]
               /\ UNCHANGED reply
    /\ UNCHANGED <<db, seq, now, enabled, tasks, outbox, handled, last, stopCh, mainPc,
                   loops, inbox, delivered, idLog, calls, statsCache, seconds>>

\* getEvents: s.storage.GetTotalCount(filter) returns, or fails and the length of
\* the page stands in; then the answer is encoded
EventsCount(c) ==
    /\ statsReqs[c].pc = "count"
    /\ \E countOk \in BOOLEAN :
          reply' = [op |-> "getEvents", status |-> 200,
                    events |-> statsReqs[c].events,
                    count |-> Len(statsReqs[c].events),
                    total_count |-> IF countOk
                                    THEN GetTotalCount(db, statsReqs[c].filter)
                                    ELSE Len(statsReqs[c].events),
                    offset |-> statsReqs[c].filter.Offset,
                    limit |-> statsReqs[c].filter.Limit]
    /\ statsReqs' = [statsReqs EXCEPT ![c] = [pc |-> "none"]]
    /\ UNCHANGED <<db, seq, now, enabled, tasks, outbox, handled, last, stopCh, mainPc,
                   loops, inbox, delivered, idLog, calls, statsCache, seconds>>

NextEvents ==
    \/ \E c \in Callers : EventsPage(c)
    \/ \E c \in Callers : EventsCount(c)
    \/ CacheSave
    \/ CallCleanupOldEvents

SpecEvents == InitCache /\ [][NextEvents]_vars

-----------------------------------------------------------------------------
(* SpecStats: GetStats, one query at a time, while events are saved and cleaned up *)

\* GetStats, the total changes query: SELECT COUNT(*) FROM change_events
StatsTotal(c) ==
    /\ statsReqs[c].pc = "none"
    /\ statsReqs' = [statsReqs EXCEPT ![c] =
                        [pc |-> "last24h", TotalChanges |-> Cardinality(db)]]
    /\ UNCHANGED <<db, seq, now, enabled, tasks, outbox, handled, last, stopCh, mainPc,
                   loops, inbox, delivered, idLog, calls, reply, statsCache, seconds>>

\* GetStats: last24h is taken from the clock and the changes of the last 24 hours
\* are counted
StatsLast24h(c) ==
    /\ statsReqs[c].pc = "last24h"
    /\ statsReqs' = [statsReqs EXCEPT ![c] =
                        [pc |-> "top", clock |-> now,
                         TotalChanges |-> statsReqs[c].TotalChanges,
                         ChangesLast24h |->
                             Cardinality({r \in db : r.timestamp >= Last24h(now)})]]
    /\ UNCHANGED <<db, seq, now, enabled, tasks, outbox, handled, last, stopCh, mainPc,
                   loops, inbox, delivered, idLog, calls, reply, statsCache, seconds>>

\* GetStats: the top modified apps query and then the recent images query
StatsLists(c) ==
    /\ statsReqs[c].pc \in {"top", "images"}
    /\ IF statsReqs[c].pc = "top"
       THEN \E top \in TopModifiedApps(db, statsReqs[c].clock) :
               statsReqs' = [statsReqs EXCEPT ![c] =
                   [pc |-> "images", TotalChanges |-> statsReqs[c].TotalChanges,
                    ChangesLast24h |-> statsReqs[c].ChangesLast24h,
                    TopModifiedApps |-> top]]
       ELSE \E images \in RecentImages(db) :
               statsReqs' = [statsReqs EXCEPT ![c] =
                   [pc |-> "kind", TotalChanges |-> statsReqs[c].TotalChanges,
                    ChangesLast24h |-> statsReqs[c].ChangesLast24h,
                    TopModifiedApps |-> statsReqs[c].TopModifiedApps,
                    RecentImages |-> images]]
    /\ UNCHANGED <<db, seq, now, enabled, tasks, outbox, handled, last, stopCh, mainPc,
                   loops, inbox, delivered, idLog, calls, reply, statsCache, seconds>>

\* GetStats, the changes by kind query
StatsByKind(c) ==
    /\ statsReqs[c].pc = "kind"
    /\ statsReqs' = [statsReqs EXCEPT ![c] =
           [pc |-> "action", TotalChanges |-> statsReqs[c].TotalChanges,
            ChangesLast24h |-> statsReqs[c].ChangesLast24h,
            TopModifiedApps |-> statsReqs[c].TopModifiedApps,
            RecentImages |-> statsReqs[c].RecentImages,
            ChangesByKind |-> ChangesByKind(db)]]
    /\ UNCHANGED <<db, seq, now, enabled, tasks, outbox, handled, last, stopCh, mainPc,
                   loops, inbox, delivered, idLog, calls, reply, statsCache, seconds>>

\* GetStats, the changes by action query, and the return of the Stats
StatsByAction(c) ==
    /\ statsReqs[c].pc = "action"
    /\ reply' = [op |-> "GetStats",
                 stats |-> [TotalChanges |-> statsReqs[c].TotalChanges,
                            ChangesLast24h |-> statsReqs[c].ChangesLast24h,
                            ChangesPerHour |-> <<statsReqs[c].ChangesLast24h, 24>>,
                            TopModifiedApps |-> statsReqs[c].TopModifiedApps,
                            RecentImages |-> statsReqs[c].RecentImages,
                            ChangesByKind |-> statsReqs[c].ChangesByKind,
                            ChangesByAction |-> ChangesByAction(db)]]
    /\ statsReqs' = [statsReqs EXCEPT ![c] = [pc |-> "none"]]
    /\ UNCHANGED <<db, seq, now, enabled, tasks, outbox, handled, last, stopCh, mainPc,
                   loops, inbox, delivered, idLog, calls, statsCache, seconds>>

NextStats ==
    \/ \E c \in Callers : StatsTotal(c)
    \/ \E c \in Callers : StatsLast24h(c)
    \/ \E c \in Callers : StatsLists(c)
    \/ \E c \in Callers : StatsByKind(c)
    \/ \E c \in Callers : StatsByAction(c)
    \/ CacheSave
    \/ CallCleanupOldEvents

SpecStats == InitCache /\ [][NextStats]_vars

-----------------------------------------------------------------------------
(* The read side of the store: tables written by SaveEvent, read by GetEvents,
   GetTotalCount, GetTimeline and GetStats *)

\* SaveEvent called with each event of a list in turn
RECURSIVE SaveAll(_, _, _)
SaveAll(table, sq, events) ==
    IF events = << >> THEN [db |-> table, seq |-> sq]
    ELSE LET saved == SaveEvent(table, sq, Head(events))
         IN  SaveAll(saved.db, saved.seq, Tail(events))

\* the events of a Deployment web that was created, updated, deleted and created
\* again, of a Deployment web-2 and of a ConfigMap web of another namespace; the
\* update and the delete bear the same timestamp
HistoryEvents ==
    << ChangeEvent(1, "default", "Deployment", "web", Added, "ADDED", "", "", "web:1"),
       ChangeEvent(2, "default", "Deployment", "web-2", Added, "ADDED", "", "", "web:1"),
       ChangeEvent(3, "default", "Deployment", "web", Modified, "Image: web:1 → web:2",
                   "", "web:1", "web:2"),
       ChangeEvent(3, "default", "Deployment", "web", Deleted, "DELETED", "", "", ""),
       ChangeEvent(4, "prod", "ConfigMap", "web", Modified, "Keys modified: [mode]",
                   "{\"keys\":[\"mode\"]}", "", ""),
       ChangeEvent(5, "default", "Deployment", "web", Added, "ADDED", "", "", "web:2") >>

\* the update of Deployment app-n at hour n to image img:n
BusyEvent(n, image) ==
    ChangeEvent(n, "default", "Deployment", "app-" \o ToString(n), Modified,
                "Image: img:0 → " \o image, "", "img:0", image)

\* eleven Deployments updated once each, to eleven images, and then the first one
\* updated again, to the image of the second
BusyEvents ==
    [n \in 1..11 |-> BusyEvent(n, "img:" \o ToString(n))]
        \o << [BusyEvent(12, "img:2") EXCEPT !.Name = "app-1"] >>

\* the tables read: a new one, one with the history of a few resources, one with
\* more names and more images than GetStats reports
QueryTables ==
    { SaveAll({}, 0, << >>), SaveAll({}, 0, HistoryEvents), SaveAll({}, 0, BusyEvents) }

QueryNamespaces == {"", "default"}
QueryKinds == {"", "Deployment"}
QueryNames == {"", "web", "w_b"}
QueryActions == {"", Added}
QueryTimes == {None, Some(3)}

\* the filters asked: every combination of the fields that select, unpaginated,
\* and every Limit and Offset up to MaxPage with a few of them
QueryFilters ==
    {Filter(ns, kind, name, action, from, to, 0, 0) :
        ns \in QueryNamespaces, kind \in QueryKinds, name \in QueryNames,
        action \in QueryActions, from \in QueryTimes, to \in QueryTimes}
    \cup
    {Filter("", "", name, "", from, None, limit, offset) :
        name \in {"", "web"}, from \in {None, Some(2)},
        limit \in 0..MaxPage, offset \in 0..MaxPage}

InitQuery ==
    /\ \E t \in QueryTables : db = t.db /\ seq = t.seq
    /\ now \in {24, 30}
    /\ enabled = FALSE
    /\ tasks = << >>
    /\ outbox = << >>
    /\ handled = 0
    /\ last = NoInvocation
    /\ stopCh = "open"
    /\ mainPc = "serving"
    /\ loops = << >>
    /\ inbox = [k \in KindSet |-> << >>]
    /\ delivered = 0
    /\ idLog = << >>
    /\ calls = 0
    /\ reply = NoReply
    /\ statsCache = None
    /\ statsReqs = NoRequests
    /\ seconds = 0

\* GetEvents(filter) returns
QueryEvents ==
    /\ \E filter \in QueryFilters : \E out \in GetEvents(db, filter) :
          reply' = [op |-> "GetEvents", filter |-> filter, err |-> out.err,
                    events |-> out.events]
    /\ UNCHANGED <<apiVars, db, seq, now, enabled, tasks, outbox, handled, last, stopCh, mainPc,
                   loops, inbox, delivered, idLog, calls>>

\* GetTotalCount(filter) returns
QueryTotalCount ==
    /\ \E filter \in QueryFilters :
          reply' = [op |-> "GetTotalCount", filter |-> filter,
                    count |-> GetTotalCount(db, filter)]
    /\ UNCHANGED <<apiVars, db, seq, now, enabled, tasks, outbox, handled, last, stopCh, mainPc,
                   loops, inbox, delivered, idLog, calls>>

\* GetTimeline(namespace, kind, name) returns
QueryTimeline ==
    /\ \E ns \in {"default", "prod"}, kind \in {"Deployment", "ConfigMap"},
          name \in {"web", "web-2", "w_b", "WEB"} :
          \E out \in GetTimeline(db, ns, kind, name) :
             reply' = [op |-> "GetTimeline", namespace |-> ns, kind |-> kind,
                       name |-> name, events |-> out]
    /\ UNCHANGED <<apiVars, db, seq, now, enabled, tasks, outbox, handled, last, stopCh, mainPc,
                   loops, inbox, delivered, idLog, calls>>

\* GetStats() returns
QueryStats ==
    /\ \E out \in GetStats(db, now) : reply' = [op |-> "GetStats", stats |-> out]
    /\ UNCHANGED <<apiVars, db, seq, now, enabled, tasks, outbox, handled, last, stopCh, mainPc,
                   loops, inbox, delivered, idLog, calls>>

NextQuery ==
    \/ QueryEvents
    \/ QueryTotalCount
    \/ QueryTimeline
    \/ QueryStats

SpecQuery == InitQuery /\ [][NextQuery]_vars

-----------------------------------------------------------------------------
(* What the claims speak of *)

ReservedNamespaces == {"kube-system", "kube-public", "kube-node-lease"}

\* the last invocation's object
LastObject == Subject(last.t)

\* a Secret that is platform-managed by type, or owned by a controller
PlatformManaged(kind, obj) ==
    /\ kind = "Secret"
    /\ \/ obj.type \in {"kubernetes.io/service-account-token", "helm.sh/release.v1"}
       \/ obj.ownerReferences # << >>

\* the exclusion filter passes the last invocation's object
LastNotExcluded ==
    /\ LastObject.namespace \notin ReservedNamespaces
    /\ ~PlatformManaged(last.kind, LastObject)

\* the rows the last invocation added to the table
LastAdded == db \ last.before

\* the last invocation stored exactly one row, and it carries the transition's action
\* and the object's namespace, kind and name
LastStoredOne ==
    \E r \in LastAdded :
        /\ db = last.before \cup {r}
        /\ r \notin last.before
        /\ r.action = last.type
        /\ r.namespace = LastObject.namespace
        /\ r.kind = last.kind
        /\ r.name = LastObject.name

\* the last invocation started no notification
LastStartedNoTask == Len(tasks) = Len(last.tasksBefore)

\* the last invocation wrote nothing and started no notification
LastDidNothing == db = last.before /\ LastStartedNoTask

\* the kind's Meaningful-Change Policy on (old, new): the results it can return
Policy(kind, old, new) ==
    CASE kind = "Deployment"  -> {DetectMeaningfulChanges(old, new)}
      [] kind = "ConfigMap"   -> DetectConfigMapChanges(old, new)
      [] kind = "Secret"      -> DetectSecretChanges(old, new)
      [] kind = "Service"     -> {DetectServiceChanges(old, new)}
      [] kind = "Ingress"     -> {DetectIngressChanges(old, new)}
      [] kind = "StatefulSet" -> {DetectStatefulSetChanges(old, new)}
      [] kind = "DaemonSet"   -> {DetectDaemonSetChanges(old, new)}
      [] kind = "CronJob"     -> {DetectCronJobChanges(old, new)}
      [] kind = "Job"         -> {DetectJobChanges(old, new)}

\* the policy returns true for the last invocation's (old, new)
LastPolicyTrue == \E d \in Policy(last.kind, last.t.old[1], last.t.new[1]) : d.has

-----------------------------------------------------------------------------
(* C1 *)

\* C1 as stated: every ADDED or DELETED transition that passes the exclusion filter
\* produces exactly one stored event carrying that action, namespace, kind and name.
\* Violated: SaveEvent can return an error, and then nothing is stored.
C1_Original ==
    (handled > 0 /\ last.type \in {Added, Deleted} /\ LastNotExcluded) => LastStoredOne

\* C1 amended: for every kind, an ADDED or DELETED transition that passes the
\* exclusion filter makes exactly one SaveEvent call; when the INSERT succeeds exactly
\* one event is stored, carrying that action, namespace, kind and name, and when it
\* fails none is.
C1_AddedDeletedStoredOnce ==
    (handled > 0 /\ last.type \in {Added, Deleted} /\ LastNotExcluded)
        => /\ last.called
           /\ last.insertOk => LastStoredOne
           /\ ~last.insertOk => db = last.before

\* a DELETED transition of a non-excluded object was handled and its event is stored
C1_Witness ==
    /\ handled > 0
    /\ last.type = Deleted
    /\ last.kind = "Deployment"
    /\ LastNotExcluded
    /\ last.insertOk
    /\ Cardinality(LastAdded) = 1

-----------------------------------------------------------------------------
(* C2 *)

\* C2 as stated, for the transitions whose INSERT did not fail: a MODIFIED transition
\* that passes the exclusion filter produces a stored event if and only if the kind's
\* policy returns true for (old, new), and a rejected one causes no store write and
\* no notification.  Violated by handleJobEvent, which drops every update of a Job
\* whose new status has succeeded > 0 or failed > 0 before it asks the policy.
C2_Original ==
    (handled > 0 /\ last.type = Modified /\ LastNotExcluded /\ last.insertOk)
        => /\ LastPolicyTrue <=> LastStoredOne
           /\ ~LastPolicyTrue => LastDidNothing

-----------------------------------------------------------------------------
(* C3 *)

\* C3: after any sequence of transitions the table holds no event of a reserved
\* namespace (kube-system, kube-public, kube-node-lease), no notification was started
\* or posted for one, and a transition of an object in a reserved namespace leaves
\* the table and the notifications as they were.
C3_NoReservedNamespace ==
    /\ \A r \in db : r.namespace \notin ReservedNamespaces
    /\ \A i \in 1..Len(tasks) : tasks[i].event.Namespace \notin ReservedNamespaces
    /\ \A i \in 1..Len(outbox) : outbox[i].namespace \notin ReservedNamespaces
    /\ (handled > 0 /\ LastObject.namespace \in ReservedNamespaces)
          => /\ db = last.before
             /\ LastStartedNoTask
             /\ ~last.called

\* an ADDED transition of an object in kube-public was handled
C3_Witness ==
    /\ handled > 0
    /\ last.type = Added
    /\ LastObject.namespace = "kube-public"
    /\ enabled

-----------------------------------------------------------------------------
(* C4 *)

\* the byte strings the model's Secrets hold
SecretValues == {"hunter2", "s3cr3t", "abc123"}

\* the Secret transitions that differ from t in value bytes alone: the same type of
\* transition, the same objects but for the values of data, the same keys, and the
\* same keys changed and unchanged between old and new
ValueVariants(t) ==
    LET datas(p) == IF p = None THEN {EmptyMap} ELSE [DOMAIN p[1].data -> SecretValues]
        with(p, d) == IF p = None THEN None ELSE Some([p[1] EXCEPT !.data = d])
        changed(o, n) == {k \in DOMAIN o \cap DOMAIN n : o[k] # n[k]}
        dataOf(p) == IF p = None THEN EmptyMap ELSE p[1].data
    IN  {Transition(t.type, with(t.old, o), with(t.new, n)) :
            <<o, n>> \in {x \in datas(t.old) \X datas(t.new) :
                            changed(x[1], x[2]) = changed(dataOf(t.old), dataOf(t.new))}}

\* the value byte strings of a transition's objects
ValuesOf(t) ==
    LET vals(p) == IF p = None THEN {} ELSE {p[1].data[k] : k \in DOMAIN p[1].data}
    IN  vals(t.old) \cup vals(t.new)

\* C4: the diff and the metadata of a Secret event are computed from key names and
\* the type alone.  Every Secret transition that differs from the handled one only in
\* value bytes (same keys, same keys changed) can yield the very same diff and
\* metadata (the key order of a Go map range being the only freedom), the stored row
\* holds them, and no value of the handled objects occurs in either text.
C4_SecretValuesNeverRecorded ==
    (handled > 0 /\ last.kind = "Secret" /\ last.result.save)
        => LET e == last.result.event
           IN  /\ \A t2 \in ValueVariants(last.t) :
                     \E r2 \in HandleSecretEvent(t2, e.Timestamp) :
                        /\ r2.save
                        /\ r2.event.Diff = e.Diff
                        /\ r2.event.Metadata = e.Metadata
               /\ \A v \in ValuesOf(last.t) :
                     ~Contains(e.Diff, v) /\ ~Contains(e.Metadata, v)
               /\ last.insertOk
                     => \E r \in LastAdded : r.diff = e.Diff /\ r.metadata = e.Metadata

\* a MODIFIED Secret transition that changed the value of a key was stored
C4_Witness ==
    /\ handled > 0
    /\ last.kind = "Secret"
    /\ last.type = Modified
    /\ last.insertOk
    /\ last.result.save
    /\ \E k \in DOMAIN last.t.old[1].data \cap DOMAIN last.t.new[1].data :
          last.t.old[1].data[k] # last.t.new[1].data[k]
    /\ last.t.old[1].type = last.t.new[1].type
    /\ DOMAIN last.t.old[1].data = DOMAIN last.t.new[1].data
    /\ Cardinality(LastAdded) = 1

-----------------------------------------------------------------------------
(* C5 *)

\* delivery number n has arrived and its handler has not returned
Pending(n) ==
    \/ \E k \in KindSet : \E j \in 1..Len(inbox[k]) : inbox[k][j].n = n
    \/ \E i \in 1..Len(loops) : loops[i].item.n = n

\* C5: a watch loop is only ever waiting for a delivery or inside its handler before
\* the store write, never waiting for a notification; and every delivered transition
\* is eventually processed to the return of its handler, unless the stop signal is
\* given first, whether or not the chat service ever answers the notifications that
\* were started (they have no fairness in SpecPipeline).
C5_LoopNeverWaitsOnNotification ==
    /\ [](\A i \in 1..Len(loops) : loops[i].pc \in {"waiting", "saving"})
    /\ []<>(stopCh = "closed" \/ \A n \in 1..MaxDelivered : ~Pending(n))

\* a notification has not been answered, and its loop has since stored the event of
\* a later delivery
C5_Witness ==
    \E j \in 1..Len(tasks) :
        /\ tasks[j].state = "started"
        /\ tasks[j].event.Action = Modified
        /\ \E m \in 1..Len(idLog) :
              /\ idLog[m].ok
              /\ idLog[m].kind = tasks[j].event.Kind
              /\ idLog[m].id > tasks[j].event.ID

-----------------------------------------------------------------------------
(* C6 *)

\* loop i returns from a saveAndNotify whose INSERT failed
FailedSave(i) ==
    /\ loops[i].pc = "saving"
    /\ loops'[i].pc # "saving"
    /\ Len(idLog') = Len(idLog) + 1
    /\ ~idLog'[Len(idLog')].ok

\* a store write has failed
SomeSaveFailed == \E m \in 1..Len(idLog) : ~idLog[m].ok

\* C6: when the store write of a handler fails, nothing is stored and no id is used,
\* no notification is started, the delivery is not put back (no retry), and the loop
\* is back in its informer, waiting like a loop that never failed; and after a failed
\* write every delivered transition is still processed unless the stop signal is
\* given first.
C6_StoreFailureDropsEventOnly ==
    /\ [][\A i \in 1..Len(loops) :
            FailedSave(i) => /\ db' = db
                             /\ seq' = seq
                             /\ tasks' = tasks
                             /\ inbox' = inbox
                             /\ loops'[i] = WatchLoop(loops[i].kind)
                             /\ idLog'[Len(idLog')].n = loops[i].item.n]_vars
    /\ SomeSaveFailed ~> (stopCh = "closed" \/ \A n \in 1..MaxDelivered : ~Pending(n))

\* a store write failed, and the same loop has since stored the event of a later
\* delivery
C6_Witness ==
    \E a, b \in 1..Len(idLog) :
        /\ a < b
        /\ ~idLog[a].ok
        /\ idLog[b].ok
        /\ idLog[a].kind = idLog[b].kind
        /\ idLog[a].n < idLog[b].n
        /\ \E r \in db : r.id = idLog[b].id /\ r.kind = idLog[b].kind

-----------------------------------------------------------------------------
(* C7 *)

\* C7: of two stored events of the same kind, the one whose transition was delivered
\* first has the smaller id, whatever the loops of the other kinds stored in between;
\* and the stored events are the rows with those ids.
C7_PerKindOrderKept ==
    /\ \A a, b \in 1..Len(idLog) :
          (idLog[a].ok /\ idLog[b].ok /\ idLog[a].kind = idLog[b].kind
              /\ idLog[a].n < idLog[b].n) => idLog[a].id < idLog[b].id
    /\ \A a \in 1..Len(idLog) :
          idLog[a].ok => \E r \in db : r.id = idLog[a].id /\ r.kind = idLog[a].kind

\* two events of one kind are stored, and between them an event of another kind whose
\* transition was delivered after both
C7_Witness ==
    \E a, b, c \in 1..Len(idLog) :
        /\ idLog[a].ok /\ idLog[b].ok /\ idLog[c].ok
        /\ idLog[a].kind = idLog[b].kind
        /\ idLog[c].kind # idLog[a].kind
        /\ idLog[a].n < idLog[b].n
        /\ idLog[b].n < idLog[c].n
        /\ idLog[a].id < idLog[c].id
        /\ idLog[c].id < idLog[b].id

-----------------------------------------------------------------------------
(* C8 *)

\* C8 as stated: when Stop has returned, no loop is inside a handler, so that none
\* will store another event.  Violated: Stop closes the channel and returns; it waits
\* for no loop, and a handler that was running stores its event afterwards.
C8_Original ==
    mainPc = "stopped" => \A i \in 1..Len(loops) : loops[i].pc = "waiting"

-----------------------------------------------------------------------------
(* C9 *)

-----------------------------------------------------------------------------
(* C10 *)

\* C10: the id of a stored event is the store's: it is greater than every id the
\* store assigned before, in this run or an earlier one, whether or not the rows that
\* had them were since deleted by a cleanup, and whatever ID the caller left in the
\* event; the row stored has that id.
C10_IdsAssignedByStore ==
    /\ \A a, b \in 1..Len(idLog) :
          (a < b /\ idLog[a].ok /\ idLog[b].ok) => idLog[a].id < idLog[b].id
    /\ \A a \in 1..Len(idLog) :
          idLog[a].ok => /\ idLog[a].id > EarlierStore.seq
                         /\ idLog[a].id <= seq
    /\ \A r \in db : r.id <= seq
    /\ \A r1, r2 \in db : r1.id = r2.id => r1 = r2

\* an event whose caller had set ID 1 was stored after a cleanup had deleted every
\* row, the one with the greatest id included
C10_Witness ==
    \E a, b \in 1..Len(idLog) :
        /\ a < b
        /\ idLog[a].ok
        /\ idLog[b].ok
        /\ idLog[b].given = 1
        /\ idLog[b].id > idLog[a].id
        /\ db = {Row(idLog[b].id, ChangeEvent(now, "default", idLog[b].kind, "web", Added,
                                              "ADDED", "", "", ""))}

-----------------------------------------------------------------------------
(* C11 *)

\* C11: a stored event never changes.  Whatever call of the store's API is made, a
\* row that is in the table after it and whose id was in the table before it is the
\* row it was, field for field; SaveEvent only adds a row (at most one), the read
\* calls (GetEvents, GetTotalCount, GetTimeline, GetStats) leave the table as it
\* was, and CleanupOldEvents only takes whole rows away.
C11_StoredEventsImmutable ==
    [][/\ \A r \in db' : r.id \in Ids(db) => r \in db
       /\ CallSaveEvent => (db \subseteq db' /\ Cardinality(db' \ db) <= 1)
       /\ CallCleanupOldEvents => db' \subseteq db
       /\ (CallGetEvents \/ CallGetTotalCount \/ CallGetTimeline \/ CallGetStats) =>
             db' = db]_vars

\* a cleanup has deleted the row of the earlier run and kept a row saved in this
\* run, which is as it was saved
C11_Witness ==
    /\ reply.op = "CleanupOldEvents"
    /\ reply.deleted > 0
    /\ EarlierRow \in reply.before
    /\ \E i \in 1..Len(idLog) :
          /\ idLog[i].ok
          /\ \E r \in db : r.id = idLog[i].id /\ r \in reply.before

-----------------------------------------------------------------------------
(* C15 *)

\* the rows of a table that are older than retentionDays days at the clock reading
OlderThan(table, clock, retentionDays) ==
    {r \in table : r.timestamp < clock - 24 * retentionDays}

\* C15 as stated: CleanupOldEvents(D) deletes exactly the events older than now - D
\* days, keeps the others and returns the number deleted, and a second run, no
\* event having been saved since the first, deletes nothing and returns 0.
C15_Original ==
    reply.op = "CleanupOldEvents" =>
        /\ db = reply.before \ OlderThan(reply.before, reply.at, reply.days)
        /\ reply.deleted = Cardinality(OlderThan(reply.before, reply.at, reply.days))
        /\ reply.previous # None => reply.deleted = 0

\* C15: CleanupOldEvents(D) deletes exactly the events older than now - D days,
\* keeps the others and returns the number deleted.  A second run, no event having
\* been saved since the first, deletes only events that were not yet D days old at
\* the first run; when the clock reads the same as at the first run, it deletes
\* nothing and returns 0.
C15_CleanupDeletesOlderThanCutoff ==
    reply.op = "CleanupOldEvents" =>
        /\ db = reply.before \ OlderThan(reply.before, reply.at, reply.days)
        /\ reply.deleted = Cardinality(OlderThan(reply.before, reply.at, reply.days))
        /\ reply.deleted = Cardinality(reply.before) - Cardinality(db)
        /\ reply.previous # None =>
              \A r \in reply.before \ db :
                  r.timestamp >= reply.previous[1] - 24 * reply.days
        /\ reply.previous = Some(reply.at) => reply.deleted = 0

\* a cleanup ran a second time at the same clock reading and returned 0; the first
\* run had deleted the row of the earlier run and kept a row saved in this run
C15_Witness ==
    /\ reply.op = "CleanupOldEvents"
    /\ reply.previous = Some(reply.at)
    /\ reply.deleted = 0
    /\ EarlierRow \notin db
    /\ db # {}

-----------------------------------------------------------------------------
(* C12, C13, C14 *)

\* an event satisfies every field of the filter that is set: namespace, kind and
\* action by equality, name by containing it, timestamp within [StartTime, EndTime]
Satisfies(e, filter) ==
    /\ filter.Namespace # "" => e.Namespace = filter.Namespace
    /\ filter.Kind # "" => e.Kind = filter.Kind
    /\ filter.Name # "" => Contains(e.Name, filter.Name)
    /\ filter.Action # "" => e.Action = filter.Action
    /\ filter.StartTime # None => e.Timestamp >= filter.StartTime[1]
    /\ filter.EndTime # None => e.Timestamp <= filter.EndTime[1]

\* the stored events
Stored == {Scan(r) : r \in db}

\* the events of a list
Range(events) == {events[i] : i \in 1..Len(events)}

\* a list of events is newest first
NewestFirst(events) ==
    \A i, j \in 1..Len(events) : i < j => events[i].Timestamp >= events[j].Timestamp

\* the events at ranks [offset, offset + limit) of a list, all from rank offset on
\* when no limit is set
Ranks(events, limit, offset) ==
    [i \in 1..(IF limit > 0 /\ offset + limit < Len(events) THEN limit
               ELSE IF offset < Len(events) THEN Len(events) - offset ELSE 0)
        |-> events[offset + i]]

\* the events the store selects for a filter, in one of the orders newest first
Selected(filter) ==
    {[i \in 1..Len(o) |-> Scan(o[i])]
        : o \in OrderByTimestampDesc({r \in db : EventsWhere(filter, r)})}

\* C12 as stated: GetEvents returns the events the filter selects, newest first,
\* and of these, for every Limit L and Offset O, O > 0 with no limit set
\* included, exactly the events at ranks [O, O + L).
C12_Original ==
    reply.op = "GetEvents" =>
        /\ ~reply.err
        /\ NewestFirst(reply.events)
        /\ \E all \in Selected(reply.filter) :
              reply.events = Ranks(all, reply.filter.Limit, reply.filter.Offset)

\* C13 as stated: GetTotalCount(filter) is the number of stored events that
\* satisfy the filter's namespace, kind, name, action and time constraints,
\* whatever its Limit and Offset.
C13_Original ==
    reply.op = "GetTotalCount" =>
        reply.count = Cardinality({e \in Stored : Satisfies(e, reply.filter)})

\* C14 as stated: an unpaginated GetEvents returns exactly the stored events that
\* satisfy every field of the filter that is set, and every stored event when none
\* is set.
C14_Original ==
    (reply.op = "GetEvents" /\ reply.filter.Limit = 0 /\ reply.filter.Offset = 0) =>
        /\ ~reply.err
        /\ Range(reply.events) = {e \in Stored : Satisfies(e, reply.filter)}
        /\ Len(reply.events) = Cardinality(Range(reply.events))

-----------------------------------------------------------------------------
(* C16 *)

\* C16: GetTimeline(namespace, kind, name) returns every stored event whose
\* namespace, kind and name equal the three given, each once, and no other event (an
\* event whose name only contains the name given is not returned), newest first and
\* without a limit; the events of a resource that was deleted and created again are
\* all there.
C16_TimelineExactAndComplete ==
    reply.op = "GetTimeline" =>
        /\ Range(reply.events) = {e \in Stored : /\ e.Namespace = reply.namespace
                                                 /\ e.Kind = reply.kind
                                                 /\ e.Name = reply.name}
        /\ Len(reply.events) = Cardinality(Range(reply.events))
        /\ NewestFirst(reply.events)

\* the timeline of Deployment default/web, which was created, updated, deleted and
\* created again, has its four events, the two creations included, and none of
\* Deployment web-2 or ConfigMap prod/web, which are stored
C16_Witness ==
    /\ reply.op = "GetTimeline"
    /\ reply.namespace = "default" /\ reply.kind = "Deployment" /\ reply.name = "web"
    /\ Len(reply.events) = 4
    /\ reply.events[1].Action = Added
    /\ reply.events[4].Action = Added
    /\ \E i \in 2..3 : reply.events[i].Action = Deleted
    /\ \E e \in Stored : e.Name = "web-2"
    /\ \E e \in Stored : e.Name = "web" /\ e.Kind = "ConfigMap"

-----------------------------------------------------------------------------
(* C17 *)

\* C17: GetStats on a table that is not written meanwhile returns the number of
\* stored events, the number of those of the last 24 hours, for every kind and for
\* every action stored the number of its events, at most 10 names, each with the
\* number of its events of the last 24 hours and none left out having more, and at
\* most 10 after-images, distinct, not empty, each the after-image of a stored event.
C17_StatsOfQuiescentStore ==
    reply.op = "GetStats" =>
        LET stats == reply.stats
            recent(e) == e.Timestamp >= now - 24
            names == {e.Name : e \in {x \in Stored : recent(x)}}
            images == {e.ImageAfter : e \in Stored} \ {""}
            recentOf(n) == Cardinality({e \in Stored : recent(e) /\ e.Name = n})
        IN  /\ stats.TotalChanges = Cardinality(Stored)
            /\ stats.ChangesLast24h = Cardinality({e \in Stored : recent(e)})
            /\ stats.ChangesPerHour = <<stats.ChangesLast24h, 24>>
            /\ DOMAIN stats.ChangesByKind = {e.Kind : e \in Stored}
            /\ \A k \in DOMAIN stats.ChangesByKind :
                  stats.ChangesByKind[k] = Cardinality({e \in Stored : e.Kind = k})
            /\ DOMAIN stats.ChangesByAction = {e.Action : e \in Stored}
            /\ \A a \in DOMAIN stats.ChangesByAction :
                  stats.ChangesByAction[a] = Cardinality({e \in Stored : e.Action = a})
            /\ Cardinality(stats.TopModifiedApps) <= 10
            /\ Cardinality(stats.TopModifiedApps) = Cardinality(names)
                  \/ Cardinality(stats.TopModifiedApps) = 10
            /\ \A app \in stats.TopModifiedApps :
                  /\ app.Name \in names
                  /\ app.Count = recentOf(app.Name)
                  /\ \A other \in stats.TopModifiedApps : other.Name = app.Name => other = app
                  /\ \A n \in names \ {x.Name : x \in stats.TopModifiedApps} :
                        recentOf(n) <= app.Count
            /\ Len(stats.RecentImages) <= 10
            /\ Len(stats.RecentImages) = Cardinality(images)
                  \/ Len(stats.RecentImages) = 10
            /\ \A i \in 1..Len(stats.RecentImages) :
                  /\ stats.RecentImages[i] \in images
                  /\ \A j \in 1..Len(stats.RecentImages) :
                        stats.RecentImages[i] = stats.RecentImages[j] => i = j

\* the table holds events of eleven names of the last 24 hours and eleven images:
\* the stats name ten of each, the name with two events among them
C17_Witness ==
    /\ reply.op = "GetStats"
    /\ Cardinality({e.Name : e \in {x \in Stored : x.Timestamp >= now - 24}}) = 11
    /\ Cardinality({e.ImageAfter : e \in Stored} \ {""}) = 11
    /\ Cardinality(reply.stats.TopModifiedApps) = 10
    /\ Len(reply.stats.RecentImages) = 10
    /\ [Name |-> "app-1", Count |-> 2] \in reply.stats.TopModifiedApps
    /\ reply.stats.TotalChanges = 12

-----------------------------------------------------------------------------
(* C18 *)

\* C18: no message is ever posted for an ADDED event (every message posted is for a
\* MODIFIED or a DELETED event), and none is posted when the notifier is not
\* enabled, where no notification is started either.
C18_NoMessageForAddedOrWhenDisabled ==
    /\ \A i \in 1..Len(outbox) : outbox[i].action \in {Modified, Deleted}
    /\ \A i \in 1..Len(outbox) : outbox[i].action # Added
    /\ ~enabled => (outbox = << >> /\ tasks = << >>)

\* with the notifier enabled, an ADDED event was stored and its notification ran to
\* its end: nothing was posted
C18_Witness ==
    /\ enabled
    /\ \E i \in 1..Len(tasks) :
          /\ tasks[i].event.Action = Added
          /\ tasks[i].state = "done"
          /\ \E r \in db : r.id = tasks[i].event.ID /\ r.action = Added
    /\ outbox = << >>

-----------------------------------------------------------------------------
(* C19, C20 *)

\* the keys an update adds, removes and changes the value of
KeysAdded(t) == DOMAIN t.new[1].data \ DOMAIN t.old[1].data
KeysRemoved(t) == DOMAIN t.old[1].data \ DOMAIN t.new[1].data
KeysModified(t) ==
    {k \in DOMAIN t.old[1].data \cap DOMAIN t.new[1].data :
        t.old[1].data[k] # t.new[1].data[k]}

\* a diff lists the keys under the heading, in some order, or has no such heading
\* when there are none
Lists(diff, heading, keys) ==
    IF keys = {} THEN ~Contains(diff, heading)
    ELSE \E p \in Perms(keys) : Contains(diff, heading \o FmtStrings(p))

\* the values the model's ConfigMaps hold
ConfigMapValues == {"fast", "safe", "high", "60s"}

\* C19 as stated: the diff of a MODIFIED ConfigMap event lists exactly the keys
\* added, the keys removed and the keys modified, and has the text before and
\* after of every key whose value changed, also when keys are added, removed and
\* modified in the same update.
C19_Original ==
    (handled > 0 /\ last.kind = "ConfigMap" /\ last.type = Modified /\ last.result.save)
        => LET diff == last.result.event.Diff
           IN  /\ Lists(diff, "Keys added: ", KeysAdded(last.t))
               /\ Lists(diff, "Keys removed: ", KeysRemoved(last.t))
               /\ Lists(diff, "Keys modified: ", KeysModified(last.t))
               /\ \A k \in KeysModified(last.t) :
                     Contains(diff, "[" \o k \o "]\n- " \o last.t.old[1].data[k]
                                        \o "\n+ " \o last.t.new[1].data[k])

\* C20 as stated: no value of a ConfigMap is stored: the diff and the metadata of a
\* stored ConfigMap event hold key names only.
C20_Original ==
    \A r \in db :
        r.kind = "ConfigMap" =>
            \A v \in ConfigMapValues : ~Contains(r.diff, v) /\ ~Contains(r.metadata, v)

-----------------------------------------------------------------------------
(* C21 *)

\* a replica count as the claim reads it: 0 when unset
Count(p) == IF p = None THEN 0 ELSE p[1]

\* the last invocation is an update of a Deployment outside the reserved namespaces
LastDeploymentUpdate ==
    /\ handled > 0
    /\ last.kind = "Deployment"
    /\ last.type = Modified
    /\ last.t.old # None
    /\ LastNotExcluded

\* C21: for a MODIFIED Deployment transition whose replica count goes from a to b
\* (an unset count read as 0), the event's summary is "Scaled up: a → b replicas"
\* when b > a and "Scaled down: a → b replicas" when b < a, and no summary of a
\* scale is produced when a = b.
C21_ScaleSummary ==
    LastDeploymentUpdate =>
        LET a == Count(last.t.old[1].replicas)
            b == Count(last.t.new[1].replicas)
            diff == last.result.event.Diff
        IN  /\ b > a => /\ last.result.save
                        /\ diff = "Scaled up: " \o ToString(a) \o " → " \o ToString(b)
                                  \o " replicas"
            /\ b < a => /\ last.result.save
                        /\ diff = "Scaled down: " \o ToString(a) \o " → " \o ToString(b)
                                  \o " replicas"
            /\ a = b => ~Contains(diff, "Scaled")

\* a Deployment went from 2 replicas to an unset count, its image and strategy
\* unchanged, and the event stored says "Scaled down: 2 → 0 replicas"
C21_Witness ==
    /\ LastDeploymentUpdate
    /\ last.t.old[1].replicas = Some(2)
    /\ last.t.new[1].replicas = None
    /\ \E r \in LastAdded : r.diff = "Scaled down: 2 → 0 replicas"

-----------------------------------------------------------------------------
(* C30 *)

\* the checks of the Deployment policy in their fixed order, each with the words its
\* summary starts with
DeploymentChecks ==
    << "Scaled ", "Image updated: ", "Resource limits updated",
       "Resource requests updated", "Environment variables updated",
       "Deployment strategy changed: " >>

\* check n finds a difference between two Deployments; the four checks of the first
\* container are made when both Deployments have one
Differs(n, old, new) ==
    LET has == Len(old.containers) > 0 /\ Len(new.containers) > 0
        c == old.containers[1]
        d == new.containers[1]
    IN  CASE n = 1 -> Count(old.replicas) # Count(new.replicas)
          [] n = 2 -> has /\ c.image # d.image
          [] n = 3 -> has /\ c.limits # d.limits
          [] n = 4 -> has /\ c.requests # d.requests
          [] n = 5 -> has /\ Len(c.env) # Len(d.env)
          [] n = 6 -> old.strategy # new.strategy

\* C30: the Deployment policy returns true exactly when at least one of its checks
\* (replica count, first-container image, resource limits, resource requests,
\* number of environment variables, strategy type) finds a difference, and the
\* event's summary is that of the first check in this order that does, and of no
\* other.
C30_FirstMatchInFixedOrder ==
    LastDeploymentUpdate =>
        LET old == last.t.old[1]
            new == last.t.new[1]
            found == {n \in 1..6 : Differs(n, old, new)}
            diff == last.result.event.Diff
        IN  /\ last.result.save <=> found # {}
            /\ DetectMeaningfulChanges(old, new).has <=> found # {}
            /\ found # {} =>
                  LET first == CHOOSE n \in found : \A m \in found : n <= m
                      words == DeploymentChecks[first]
                  IN  /\ SubSeq(diff, 1, Len(words)) = words
                      /\ \A m \in 1..6 : m # first => ~Contains(diff, DeploymentChecks[m])

\* an update changed the image, the limits, the requests, the environment and the
\* strategy of a Deployment, not its replicas; the event stored has the summary of
\* the image
C30_Witness ==
    /\ LastDeploymentUpdate
    /\ {n \in 1..6 : Differs(n, last.t.old[1], last.t.new[1])} = {2, 3, 4, 5, 6}
    /\ \E r \in LastAdded : r.diff = "Image updated: nginx:1.0 → nginx:1.1"

-----------------------------------------------------------------------------
(* C22 *)

\* the last invocation is an update of a ConfigMap that added, removed and changed
\* no key of its data
LastConfigMapDataKept ==
    /\ handled > 0
    /\ last.kind = "ConfigMap"
    /\ last.type = Modified
    /\ last.t.old # None
    /\ DOMAIN last.t.old[1].data = DOMAIN last.t.new[1].data
    /\ \A k \in DOMAIN last.t.old[1].data : last.t.old[1].data[k] = last.t.new[1].data[k]

\* C22: a MODIFIED ConfigMap transition that added, removed and changed no data key
\* (the objects differing in metadata only, or not at all) stores no event and
\* starts no notification.
C22_MetadataOnlyUpdateStoresNothing ==
    LastConfigMapDataKept =>
        /\ ~last.result.save
        /\ ~last.called
        /\ LastDidNothing

\* an update of ConfigMap default/web that changed its metadata (resourceVersion)
\* and no data key was handled: the table is as it was
C22_Witness ==
    /\ LastConfigMapDataKept
    /\ last.t.old[1] # last.t.new[1]
    /\ LastObject.namespace = "default"
    /\ db = last.before
    /\ tasks = << >>

-----------------------------------------------------------------------------
(* C23 *)

\* the last invocation is an update of a Job outside the reserved namespaces
LastJobUpdate ==
    /\ handled > 0
    /\ last.kind = "Job"
    /\ last.type = Modified
    /\ last.t.old # None
    /\ LastNotExcluded

\* the spec fields the Job policy checks are the same in the two Jobs
JobSpecKept(old, new) ==
    /\ old.parallelism = new.parallelism
    /\ old.completions = new.completions
    /\ old.containers = new.containers
    /\ old.backoffLimit = new.backoffLimit

\* C23 as stated: a MODIFIED Job transition that changed no checked spec field
\* (parallelism, completions, container image, backoff limit), its status counters
\* at most, stores no event; only such status-only updates are filtered before the
\* policy, an update that changed a checked spec field is put to the policy.
C23_Original ==
    LastJobUpdate =>
        /\ JobSpecKept(last.t.old[1], last.t.new[1]) =>
              (~last.result.save /\ LastDidNothing)
        /\ ~JobSpecKept(last.t.old[1], last.t.new[1]) => last.result.why # "status"

-----------------------------------------------------------------------------
(* C24 *)

\* C24 as stated: every answer of GET /api/stats, from the cache or freshly
\* computed, holds stats read from the store no more than the TTL before the
\* answer, whatever the interleaving of callers, saves and the clock, and an answer
\* that replaces the cache never replaces stats read later than its own.
C24_Original ==
    reply.op = "getStats" =>
        /\ reply.at - reply.readAt <= cacheTTL
        /\ reply.replaced # None => reply.replaced[1] <= reply.readAt

-----------------------------------------------------------------------------
(* C25 *)

\* the events the handler of a kind records for what its informer delivers
RecordedEvents(kind) ==
    {r.event : r \in {h \in UNION {Handler(kind, t, now) : t \in ClusterTransitions(kind)} :
                         h.save}}

\* the saves that reported success, by their position in the order they returned
SuccessfulSaves == {a \in 1..Len(idLog) : idLog[a].ok}

\* C25: under watch loops that save concurrently, every save that reported success
\* has exactly one row, under an id no other save has, holding the fields of the
\* event it was called with, and the table holds no other row: no successful write
\* is lost, duplicated or mixed with another.
C25_ConcurrentSavesEachOneRow ==
    /\ \A a \in SuccessfulSaves :
          /\ Cardinality({r \in db : r.id = idLog[a].id}) = 1
          /\ \E e \in RecordedEvents(idLog[a].kind) : Row(idLog[a].id, e) \in db
    /\ \A a, b \in SuccessfulSaves : idLog[a].id = idLog[b].id => a = b
    /\ Cardinality(db) = Cardinality(SuccessfulSaves)

\* two loops were inside their handlers at once and the save of the later delivery
\* returned first; a third save, of the resource already stored, succeeded too
C25_Witness ==
    /\ Cardinality(SuccessfulSaves) = 3
    /\ \E a, b \in SuccessfulSaves :
          /\ a < b
          /\ idLog[a].n > idLog[b].n
          /\ idLog[a].kind # idLog[b].kind
    /\ \E a, b \in SuccessfulSaves : a # b /\ idLog[a].kind = idLog[b].kind

-----------------------------------------------------------------------------
(* C26 *)

\* a callback whose snapshots are not of the expected shape: one that is not nil
\* is not an object of the informer's kind, or both are nil
Malformed(kind, d) ==
    \/ d.old = None /\ d.new = None
    \/ \E x \in {d.old, d.new} : x # None /\ x[1].type # GoType(kind)

\* C26 as stated: a delivery whose snapshot is malformed fails safe: no save is
\* made for it, and the watch loop and the process keep running.
C26_Original ==
    (reply.op = "callback" /\ Malformed(reply.kind, reply.d)) =>
        /\ mainPc = "serving"
        /\ \A a \in 1..Len(idLog) : idLog[a].n # handled

-----------------------------------------------------------------------------
(* C27 *)

\* C27 as stated: for a transition that passes the filter, the store write and the
\* start of the notification fail independently: an event whose notification
\* failed keeps its row, and with notifications enabled a notification is started
\* for the transition although its store write failed.
C27_Original ==
    /\ \A i \in 1..Len(tasks) :
          tasks[i].state = "failed" => \E r \in db : r.id = tasks[i].event.ID
    /\ (last.result.save /\ enabled /\ last.err) =>
          Len(tasks) = Len(last.tasksBefore) + 1

-----------------------------------------------------------------------------
(* C28 *)

\* the messages posted for the event stored under id
PostsFor(id) == {m \in 1..Len(outbox) : outbox[m].id = id}

\* C28: a notification is attempted at most once per stored event: no two posts
\* are for the same event and every post is for an event a save stored; a
\* notification that has returned, delivered or failed, never runs again; and a
\* step of a notification goroutine gives nothing back to the handlers: the watch
\* loops, the record of their saves and the table are as they were.
C28_NotifiedAtMostOnce ==
    /\ [](\A m \in 1..Len(outbox) :
             /\ PostsFor(outbox[m].id) = {m}
             /\ \E a \in SuccessfulSaves : idLog[a].id = outbox[m].id)
    /\ [][/\ \A i \in 1..Len(tasks) :
                tasks[i].state \in {"done", "failed"} =>
                    (i <= Len(tasks') /\ tasks'[i] = tasks[i])
          /\ outbox' # outbox => (loops' = loops /\ idLog' = idLog /\ db' = db)]_vars

\* the post for one stored event failed and stayed the only post for it, while the
\* event stored after it was notified
C28_Witness ==
    \E i, j \in 1..Len(tasks) :
        /\ i < j
        /\ tasks[i].state = "failed"
        /\ tasks[j].state = "done"
        /\ Cardinality(PostsFor(tasks[i].event.ID)) = 1
        /\ Cardinality(PostsFor(tasks[j].event.ID)) = 1
        /\ \E r \in db : r.id = tasks[i].event.ID

-----------------------------------------------------------------------------
(* C29 *)

\* the last invocation was the Secret handler's, on a Secret that is
\* platform-managed by type or has an owner reference
LastPlatformManagedSecret ==
    /\ last.kind = "Secret"
    /\ last.type \in EventTypes
    /\ PlatformManaged("Secret", LastObject)

\* C29: a transition of a Secret that is a service-account token or a helm release
\* by type, or has at least one owner reference, is not recorded, whatever its
\* action and its namespace: the handler asks for no save, the table is as it was
\* and no notification was started.
C29_PlatformManagedSecretsNotRecorded ==
    LastPlatformManagedSecret => (~last.result.save /\ ~last.called /\ LastDidNothing)

\* with notifications enabled, an update in namespace prod gave an operator's
\* Secret an owner reference
C29_Witness ==
    /\ LastPlatformManagedSecret
    /\ enabled
    /\ last.type = Modified
    /\ LastObject.namespace = "prod"
    /\ LastObject.ownerReferences # << >>
    /\ last.t.old[1].ownerReferences = << >>
    /\ last.t.old[1].type = LastObject.type
    /\ LastObject.type \notin {"kubernetes.io/service-account-token", "helm.sh/release.v1"}

-----------------------------------------------------------------------------
(* C31 *)

\* the last invocation was an update of a Secret that changed its type
LastSecretTypeChanged ==
    /\ last.kind = "Secret"
    /\ last.type = Modified
    /\ last.t.old # None
    /\ last.t.old[1].type # last.t.new[1].type

\* the line that reports a type change, and nothing else
TypeChangeOnly(old, new) == "Secret type changed: " \o old.type \o " → " \o new.type

\* C31: for an update of a Secret that changed its type the policy returns true
\* with the type change (old type → new type) as the whole description, whatever
\* keys the update added, removed or changed in value; when the update passes the
\* exclusion filter that description is the diff of the event the handler records.
C31_TypeChangeReportedAlone ==
    LastSecretTypeChanged =>
        /\ Policy("Secret", last.t.old[1], last.t.new[1])
              = {[has |-> TRUE, desc |-> TypeChangeOnly(last.t.old[1], last.t.new[1])]}
        /\ LastNotExcluded =>
              /\ last.result.save
              /\ last.result.event.Diff = TypeChangeOnly(last.t.old[1], last.t.new[1])

\* an update changed the type of a Secret, added a key and changed the value of
\* another, and the row stored for it has the type change as its diff
C31_Witness ==
    /\ LastSecretTypeChanged
    /\ DOMAIN last.t.new[1].data # DOMAIN last.t.old[1].data
    /\ \E k \in DOMAIN last.t.old[1].data \cap DOMAIN last.t.new[1].data :
          last.t.old[1].data[k] # last.t.new[1].data[k]
    /\ \E r \in LastAdded : r.diff = "Secret type changed: Opaque → kubernetes.io/tls"

-----------------------------------------------------------------------------
(* C32 *)

\* the allow-listed annotations: ingress class, TLS issuer, rewrite target
AllowListed ==
    {"kubernetes.io/ingress.class", "cert-manager.io/cluster-issuer",
     "nginx.ingress.kubernetes.io/rewrite-target"}

\* the value of an annotation, where the Ingress has it
Annotation(ing, key) ==
    IF key \in DOMAIN ing.annotations THEN Some(ing.annotations[key]) ELSE None

\* an allow-listed annotation differs in presence or value, or the rules differ in
\* a rule, a host, a path or a backend, or the number of TLS blocks differs
IngressDiffers(old, new) ==
    \/ \E key \in AllowListed : Annotation(old, key) # Annotation(new, key)
    \/ old.rules # new.rules
    \/ old.tls # new.tls

\* the last invocation was an update of an Ingress
LastIngressUpdate == last.kind = "Ingress" /\ last.type = Modified /\ last.t.old # None

\* C32 as stated: for an update of an Ingress the policy returns true whenever an
\* allow-listed annotation changed in presence or value, or a rule, host, path or
\* backend changed, or the number of TLS blocks changed, and returns false when
\* none of these differ.
C32_Original ==
    LastIngressUpdate =>
        (LastPolicyTrue <=> IngressDiffers(last.t.old[1], last.t.new[1]))

-----------------------------------------------------------------------------
(* C33 *)

\* the message has the before/after image block
HasImageBlock(msg) == \E f \in 1..Len(msg.Fields) : msg.Fields[f].Title = "Image Change"

\* C33 as stated: the message posted for an event has the before/after image block
\* if and only if the event's two images are both present and differ; an event whose
\* images are equal, such as a Deployment scale change, is posted without it.
C33_Original ==
    \A i \in 1..Len(tasks), m \in 1..Len(outbox) :
        outbox[m].id = tasks[i].event.ID =>
            (HasImageBlock(outbox[m]) <=>
                /\ tasks[i].event.ImageBefore # ""
                /\ tasks[i].event.ImageAfter # ""
                /\ tasks[i].event.ImageBefore # tasks[i].event.ImageAfter)

-----------------------------------------------------------------------------
(* C34 *)

\* the diff of at most n characters, in the code block the message puts it in
Fenced(diff) == "'''\n" \o diff \o "\n'''"

\* NotifyChange has just posted a message for the event it was called on
LastPosted ==
    /\ reply.op = "NotifyChange"
    /\ enabled
    /\ reply.event.Action = Modified

\* C34 as stated: the diff in a message is capped at 500 characters: an empty diff
\* gives no diff text, a diff of at most 500 characters is rendered whole with no
\* truncation marker, and a longer diff is rendered as its first 500 characters
\* followed by the marker.
C34_Original ==
    LastPosted =>
        LET diff == reply.event.Diff
            text == outbox[Len(outbox)].Text
        IN  /\ diff = "" => text = ""
            /\ (diff # "" /\ Len(diff) <= 500) => text = Fenced(diff)
            /\ Len(diff) > 500 =>
                  text = Fenced(SubSeq(diff, 1, 500) \o "...\n_(truncated)_")

-----------------------------------------------------------------------------
(* C35 *)

\* C35 as stated: the cleanup has run once when main goes on from its start, every
\* later cleanup runs 24 hours after the one before, and the retention worker
\* observes the shutdown signal of the watch loops: once stopCh is closed it starts
\* no further cleanup.
C35_Original ==
    /\ [](/\ mainPc # "opened" => reply.op = "CleanupOldEvents"
          /\ (reply.op = "CleanupOldEvents" /\ reply.previous # None) =>
                reply.at = reply.previous[1] + 24)
    /\ [][stopCh = "closed" => ~PeriodicCleanup]_vars

-----------------------------------------------------------------------------
(* C36 *)

\* the last invocation was a resync: an update whose old and new snapshot are the
\* same object
LastResync ==
    /\ last.type = Modified
    /\ last.t.old # None
    /\ last.t.new # None
    /\ last.t.old[1] = last.t.new[1]

\* C36: a resync of an unchanged resource of any kind has no effect: the handler
\* asks for no save and calls none, the table is as it was and no notification was
\* started, so the store is the same after any number of resyncs.
C36_ResyncStoresNothing ==
    LastResync => (~last.result.save /\ ~last.called /\ LastDidNothing)

\* with notifications enabled the Deployment informer resynced a Deployment in a
\* namespace that is not reserved, and the table still holds the earlier run's row
C36_Witness ==
    /\ LastResync
    /\ last.kind = "Deployment"
    /\ LastNotExcluded
    /\ enabled
    /\ db = {EarlierRow}
    /\ tasks = << >>

-----------------------------------------------------------------------------
(* C37 *)

\* the last invocation was an update of a Job whose new snapshot counts a
\* succeeded or a failed pod
LastFinishedJobUpdate ==
    /\ last.kind = "Job"
    /\ last.type = Modified
    /\ last.t.old # None
    /\ (last.t.new[1].succeeded > 0 \/ last.t.new[1].failed > 0)

-----------------------------------------------------------------------------
(* C38 *)

\* C38 as stated: every answer of GET /api/events with a page that is not empty has
\* total_count >= offset + the number of events in the page, whatever saves and
\* cleanups ran between the read of the page and the read of the count.
C38_Original ==
    (reply.op = "getEvents" /\ reply.status = 200 /\ reply.count > 0) =>
        reply.total_count >= reply.offset + reply.count

-----------------------------------------------------------------------------
(* C39 *)

\* the sum of the counts of a map of counts
RECURSIVE CountSum(_)
CountSum(m) ==
    IF DOMAIN m = {} THEN 0
    ELSE LET k == CHOOSE x \in DOMAIN m : TRUE
         IN  m[k] + CountSum([x \in DOMAIN m \ {k} |-> m[x]])

\* C39 as stated: every Stats that GetStats returns is consistent in itself, also
\* while events are saved and cleaned up: the counts by kind add up to the total
\* changes, the counts by action add up to the total changes, and the changes of
\* the last 24 hours are no more than the total changes.
C39_Original ==
    reply.op = "GetStats" =>
        /\ CountSum(reply.stats.ChangesByKind) = reply.stats.TotalChanges
        /\ CountSum(reply.stats.ChangesByAction) = reply.stats.TotalChanges
        /\ reply.stats.ChangesLast24h <= reply.stats.TotalChanges

=============================================================================
